---- MODULE Spec2Model ----
(***************************************************************************)
(* RAG evaluation framework: the prompt-version orchestrator               *)
(* (src/src/run_eval.py), the query engine with its rate-limit retry loop  *)
(* (src/src/rag_pipeline.py) and the score aggregator                      *)
(* (src/src/aggregate_scores.py).                                          *)
(*                                                                         *)
(* Spec     the orchestrator process, its restarts and its files           *)
(* SpecRag  one call of rag()                                              *)
(* SpecAgg  one call of aggregate_scores()                                 *)
(* SpecScoring  one scoring run of the orchestrator, process by process    *)
(***************************************************************************)
EXTENDS Integers, Sequences, FiniteSets, TLC

VARIABLES
    \* ---- orchestrator (run_eval.py) ----
    versions_to_run,   \* main: versions_to_run, the parsed --prompt_versions list
    oracle,            \* the deterministic outcomes of the external collaborators
    pc,                \* position of the orchestrator process
    p_idx,             \* index of p_ver in prompt_versions_to_run
    item_idx,          \* index of item in test_data
    cmd_idx,           \* which of the four run_command calls of the scoring pass is next
    full_results,      \* the in-memory result store
    output_file,       \* data/prompt_versions/prompt_impact_analysis.json (Absent or a store)
    reports,           \* data/results/report_<v>.json, per version (Absent or a report)
    trace,             \* history: the external events of the current process run
    runs,              \* history: number of process runs started so far
    resumes,           \* history: restarts since the arguments or the environment last changed
    origin,            \* history: the files as they were when they last changed
    \* ---- one call of rag() (rag_pipeline.py) ----
    rag_args,          \* llm_provider, system_prompt, prompt_version as passed
    environ,           \* os.environ and the installed client packages
    rag_pc,            \* position in rag()
    rag_local,         \* system_prompt, prompt_version, prompt, attempt, final_result
    rag_out,           \* how the call ended: a returned dict or a raised exception
    rag_log,           \* history: the collaborator calls and sleeps of this call
    \* ---- one call of aggregate_scores() (aggregate_scores.py) ----
    agg_args,          \* save_name as passed
    score_files,       \* data/results/{retrieval,generation,ragas}_score.json
    agg_pc,            \* position in aggregate_scores()
    agg_local,         \* retrieval, generation, ragas, rqi, grade once assigned
    agg_reports,       \* data/results/report_<save_name>.json, per save_name
    agg_log,           \* history: what the call printed
    \* ---- one scoring run of the orchestrator (run_eval.py) ----
    sc_args,           \* p_ver of the scoring pass (None: the standard flow), run_name
    os_environ,        \* os.environ of the orchestrator process: the two override variables
    sc_pc,             \* position in the scoring run
    sc_env,            \* the local env of run_prompt_version_eval (empty: none)
    sc_log             \* history: the processes started with their environments, the sleeps

orchVars == <<versions_to_run, oracle, pc, p_idx, item_idx, cmd_idx, full_results,
              output_file, reports, trace, runs, resumes, origin>>

ragVars == <<rag_args, environ, rag_pc, rag_local, rag_out, rag_log>>

aggVars == <<agg_args, score_files, agg_pc, agg_local, agg_reports, agg_log>>

scVars == <<sc_args, os_environ, sc_pc, sc_env, sc_log>>

vars == <<orchVars, ragVars, aggVars, scVars>>

-----------------------------------------------------------------------------
(* Bounds of the model *)

MaxList == 2        \* longest --prompt_versions list
MaxRuns == 2        \* process runs (first run plus restarts) in one behaviour

-----------------------------------------------------------------------------
(* Values *)

Absent == "absent"          \* a file that does not exist / a key not in a dict
None == "None"              \* Python None
NoQuery == "noquery"        \* a test item whose "query" is missing or empty
EmptyDict == [x \in {} |-> None]

Put(d, key, val) == [x \in (DOMAIN d) \cup {key} |-> IF x = key THEN val ELSE d[x]]

\* run_eval.py:12-18. Two of the five versions are modelled; prompt_v0 is the baseline.
PROMPT_VERSIONS ==
    [v \in {"prompt_v0", "prompt_v1"} |->
        IF v = "prompt_v0" THEN "You are a helpful assistant. Answer ... concisely."
        ELSE "You are a helpful assistant. Answer ... well-structured sentences."]

UnknownVersion == "prompt_vX"
VersionIds == (DOMAIN PROMPT_VERSIONS) \cup {UnknownVersion}

\* PROMPT_VERSIONS.get(p_ver)
PromptGet(p_ver) == IF p_ver \in DOMAIN PROMPT_VERSIONS THEN PROMPT_VERSIONS[p_ver] ELSE None

\* data/test_generation_synthetic.json as loaded at run_eval.py:94-95
test_data == <<"q1", NoQuery, "q2">>
Questions == {test_data[i] : i \in 1..Len(test_data)} \ {NoQuery}

\* The scoring pass with generation scoring run before retrieval scoring
CommandsGenerationFirst ==
    <<"eval_generation", "eval_retrieval", "eval_ragas", "aggregate_scores">>

\* The four external processes of the scoring pass, in the order of run_eval.py:176-185
Commands == <<"eval_retrieval", "eval_generation", "eval_ragas", "aggregate_scores">>

VersionLists == UNION {[1..n -> VersionIds] : n \in 1..MaxList}

\* One environment: at most one collaborator misbehaves, always in the same way.
Faults ==
    {<<"none">>, <<"nofile">>}
    \cup {<<"rag", q, v, m>> : q \in Questions, v \in DOMAIN PROMPT_VERSIONS, m \in {"error", "raise"}}
    \cup {<<"compare", q>> : q \in Questions}
    \cup {<<"cmd", k, v>> : k \in 1..Len(Commands), v \in DOMAIN PROMPT_VERSIONS}
    \cup {<<"noreport", v>> : v \in DOMAIN PROMPT_VERSIONS}

-----------------------------------------------------------------------------
(* Python float arithmetic (IEEE 754 binary64, round to nearest, ties to even)
   as far as aggregate_scores.py needs it: decimal literals, products and sums
   of numbers in [0, 1], and comparison *)

\* A natural number is the sequence of its digits in base 2^13, least
\* significant first, without leading zero digits; << >> is 0.
Limb == 8192
LimbBits == 13

RECURSIVE FromInt(_)
FromInt(n) == IF n = 0 THEN << >> ELSE <<n % Limb>> \o FromInt(n \div Limb)

RECURSIVE Trim(_)
Trim(a) ==
    IF a = << >> THEN << >>
    ELSE IF a[Len(a)] = 0 THEN Trim(SubSeq(a, 1, Len(a) - 1))
    ELSE a

RECURSIVE AddC(_, _, _)
AddC(a, b, carry) ==
    IF a = << >> /\ b = << >> THEN FromInt(carry)
    ELSE LET x == (IF a = << >> THEN 0 ELSE a[1]) + (IF b = << >> THEN 0 ELSE b[1]) + carry
         IN  <<x % Limb>> \o AddC(IF a = << >> THEN << >> ELSE Tail(a),
                                  IF b = << >> THEN << >> ELSE Tail(b), x \div Limb)

Add(a, b) == Trim(AddC(a, b, 0))

RECURSIVE MulSmallC(_, _, _)
MulSmallC(a, k, carry) ==
    IF a = << >> THEN FromInt(carry)
    ELSE LET p == a[1] * k + carry
         IN  <<p % Limb>> \o MulSmallC(Tail(a), k, p \div Limb)

RECURSIVE Mul(_, _)
Mul(a, b) ==
    IF b = << >> \/ a = << >> THEN << >>
    ELSE Add(MulSmallC(a, b[1], 0), <<0>> \o Mul(a, Tail(b)))

\* Quotient and remainder of a by a divisor d <= Limb
RECURSIVE DivSmallR(_, _)
DivSmallR(a, d) ==
    IF a = << >> THEN [q |-> << >>, r |-> 0]
    ELSE LET hi == DivSmallR(Tail(a), d)
             cur == hi.r * Limb + a[1]
         IN  [q |-> <<cur \div d>> \o hi.q, r |-> cur % d]

DivSmall(a, d) == [q |-> Trim(DivSmallR(a, d).q), r |-> DivSmallR(a, d).r]

RECURSIVE Pow2(_)
Pow2(k) == IF k = 0 THEN 1 ELSE 2 * Pow2(k - 1)

RECURSIVE BitsOf(_)
BitsOf(n) == IF n = 0 THEN 0 ELSE 1 + BitsOf(n \div 2)

BitLen(a) == IF a = << >> THEN 0 ELSE (Len(a) - 1) * LimbBits + BitsOf(a[Len(a)])

ShiftLeft(a, s) ==
    IF a = << >> THEN << >>
    ELSE [i \in 1..(s \div LimbBits) |-> 0] \o Trim(MulSmallC(a, Pow2(s % LimbBits), 0))

\* a \div 2^s, and whether a nonzero bit was shifted out
ShiftRight(a, s) ==
    LET whole == s \div LimbBits
        kept == SubSeq(a, whole + 1, Len(a))
        part == DivSmall(kept, Pow2(s % LimbBits))
    IN  [q |-> part.q,
         sticky |-> part.r # 0 \/ \E i \in 1..whole : i <= Len(a) /\ a[i] # 0]

IsOdd(a) == a # << >> /\ a[1] % 2 = 1

\* a >= b for two numbers of the same number of digits
RECURSIVE GeDigits(_, _)
GeDigits(a, b) ==
    IF a = << >> THEN TRUE
    ELSE IF a[Len(a)] # b[Len(b)] THEN a[Len(a)] > b[Len(b)]
    ELSE GeDigits(SubSeq(a, 1, Len(a) - 1), SubSeq(b, 1, Len(b) - 1))

\* A float is m * 2^e with 2^52 <= m < 2^53, or zero (m = 0); none here is
\* negative, infinite or subnormal.
MantissaBits == 53
FloatZero == [m |-> << >>, e |-> 0]

\* The float nearest to n * 2^e, ties to even
RoundToFloat(n, e) ==
    IF n = << >> THEN FloatZero
    ELSE IF BitLen(n) <= MantissaBits
    THEN [m |-> ShiftLeft(n, MantissaBits - BitLen(n)), e |-> e - (MantissaBits - BitLen(n))]
    ELSE LET s == BitLen(n) - MantissaBits
             most == ShiftRight(n, s - 1)
             half == DivSmall(most.q, 2)
             up == half.r = 1 /\ (most.sticky \/ IsOdd(half.q))
             m == IF up THEN Add(half.q, <<1>>) ELSE half.q
         IN  IF BitLen(m) > MantissaBits
             THEN [m |-> DivSmall(m, 2).q, e |-> e + s + 1]
             ELSE [m |-> m, e |-> e + s]

\* The float a decimal literal or a JSON number equal to n/d denotes
\* (0 <= n <= d <= Limb)
RECURSIVE Lead(_, _)
Lead(n, d) == IF n >= d THEN 0 ELSE 1 + Lead(2 * n, d)

Float(n, d) ==
    IF n = 0 THEN FloatZero
    ELSE LET k == MantissaBits - 1 + Lead(n, d)
             div == DivSmall(ShiftLeft(FromInt(n), k), d)
             up == 2 * div.r > d \/ (2 * div.r = d /\ IsOdd(div.q))
         IN  RoundToFloat(IF up THEN Add(div.q, <<1>>) ELSE div.q, -k)

\* x * y, x + y and x >= y on floats
FloatMul(x, y) == RoundToFloat(Mul(x.m, y.m), x.e + y.e)

FloatAdd(x, y) ==
    IF x.m = << >> THEN y
    ELSE IF y.m = << >> THEN x
    ELSE LET e == IF x.e < y.e THEN x.e ELSE y.e
         IN  RoundToFloat(Add(ShiftLeft(x.m, x.e - e), ShiftLeft(y.m, y.e - e)), e)

FloatGe(x, y) ==
    IF y.m = << >> THEN TRUE
    ELSE IF x.m = << >> THEN FALSE
    ELSE x.e > y.e \/ (x.e = y.e /\ GeDigits(x.m, y.m))

FloatLt(x, y) == ~FloatGe(x, y)

-----------------------------------------------------------------------------
(* Score aggregator, aggregate_scores.py: the pure part *)

\* A score is written in hundredths (0..100 for 0.00..1.00); Score[n] is the
\* float json.load gives for it and Tenth[n] the float of the literal 0.n.
Score == [n \in 0..100 |-> Float(n, 100)]
Tenth == [n \in 0..10 |-> Float(n, 10)]

\* aggregate_scores.py:58-60
W_RETRIEVAL == Tenth[4]
W_GENERATION == Tenth[3]
W_RAGAS == Tenth[3]

\* aggregate_scores.py:63
Rqi(retrieval, generation, ragas) ==
    FloatAdd(FloatAdd(FloatMul(Score[retrieval], W_RETRIEVAL),
                      FloatMul(Score[generation], W_GENERATION)),
             FloatMul(Score[ragas], W_RAGAS))

GradeStrict(rqi) ==
    IF FloatLt(Tenth[9], rqi) THEN "A+"
    ELSE IF FloatLt(Tenth[8], rqi) THEN "A"
    ELSE IF FloatLt(Tenth[7], rqi) THEN "B"
    ELSE IF FloatLt(Tenth[6], rqi) THEN "C"
    ELSE IF FloatLt(Tenth[5], rqi) THEN "D"
    ELSE "F"

\* aggregate_scores.py:72-77
Grade(rqi) ==
    IF FloatGe(rqi, Tenth[9]) THEN "A+"
    ELSE IF FloatGe(rqi, Tenth[8]) THEN "A"
    ELSE IF FloatGe(rqi, Tenth[7]) THEN "B"
    ELSE IF FloatGe(rqi, Tenth[6]) THEN "C"
    ELSE IF FloatGe(rqi, Tenth[5]) THEN "D"
    ELSE "F"

\* get_justification with a compound rule that replaces the message on reasoning
get_justificationSuppressing(retrieval, generation, ragas) ==
    (IF FloatLt(Score[retrieval], Tenth[6])
     THEN <<"Retrieval is the bottleneck">> ELSE <<"Retrieval is healthy">>)
    \o (IF FloatLt(Score[generation], Tenth[6]) THEN <<"Factuality is low">>
        ELSE IF FloatLt(Tenth[8], Score[generation]) THEN <<"Factuality is high">>
        ELSE << >>)
    \o (IF FloatLt(Tenth[8], Score[retrieval]) /\ FloatLt(Score[ragas], Tenth[5])
        THEN <<"RAG Paradox">>
        ELSE IF FloatLt(Score[ragas], Tenth[6]) THEN <<"Reasoning is poor">>
        ELSE IF FloatLt(Tenth[8], Score[ragas]) THEN <<"Reasoning is strong">>
        ELSE << >>)

\* aggregate_scores.py:5-30. The justification is the sequence of its messages
\* (the code joins them with newlines, and no message holds a newline).
get_justification(retrieval, generation, ragas) ==
    (IF FloatLt(Score[retrieval], Tenth[6])
     THEN <<"Retrieval is the bottleneck">> ELSE <<"Retrieval is healthy">>)
    \o (IF FloatLt(Score[generation], Tenth[6]) THEN <<"Factuality is low">>
        ELSE IF FloatLt(Tenth[8], Score[generation]) THEN <<"Factuality is high">>
        ELSE << >>)
    \o (IF FloatLt(Score[ragas], Tenth[6]) THEN <<"Reasoning is poor">>
        ELSE IF FloatLt(Tenth[8], Score[ragas]) THEN <<"Reasoning is strong">>
        ELSE << >>)
    \o (IF FloatLt(Tenth[8], Score[retrieval]) /\ FloatLt(Score[ragas], Tenth[5])
        THEN <<"RAG Paradox">> ELSE << >>)

\* Python truthiness of save_name (aggregate_scores.py:90 and 98)
Truthy(save_name) == save_name # None /\ save_name # ""

\* report_data that names every report "default"
report_dataDefaultName(save_name, retrieval, generation, ragas, rqi, grade) ==
    [model_name |-> "default",
     retrieval |-> retrieval,
     generation |-> generation,
     ragas |-> ragas,
     rqi |-> rqi,
     grade |-> grade]

\* aggregate_scores.py:89-96
report_data(save_name, retrieval, generation, ragas, rqi, grade) ==
    [model_name |-> IF Truthy(save_name) THEN save_name ELSE "default",
     retrieval |-> retrieval,
     generation |-> generation,
     ragas |-> ragas,
     rqi |-> rqi,
     grade |-> grade]

\* aggregate_scores.py:63-96: the report of one aggregation of three scores
Report(save_name, retrieval, generation, ragas) ==
    report_data(save_name, retrieval, generation, ragas,
                Rqi(retrieval, generation, ragas),
                Grade(Rqi(retrieval, generation, ragas)))

-----------------------------------------------------------------------------
(* Query engine, rag_pipeline.py: values and pure parts *)

\* Text is a sequence of characters, so that "in" and lower() are computed.
Contains(text, part) ==
    \E i \in 1..(Len(text) - Len(part) + 1) : SubSeq(text, i, i + Len(part) - 1) = part

LowerChar(c) ==
    CASE c = "A" -> "a" [] c = "E" -> "e" [] c = "I" -> "i" [] c = "L" -> "l"
      [] c = "M" -> "m" [] c = "O" -> "o" [] c = "Q" -> "q" [] c = "R" -> "r"
      [] c = "T" -> "t" [] c = "U" -> "u" [] c = "H" -> "h" [] c = "P" -> "p"
      [] OTHER -> c

\* str.lower()
Lower(text) == [i \in 1..Len(text) |-> LowerChar(text[i])]

\* str(e) of the exceptions the chain can raise
Msg429 == <<"H", "T", "T", "P", " ", "4", "2", "9">>
MsgRateLimit == <<"R", "a", "t", "e", " ", "l", "i", "m", "i", "t", " ", "h", "i", "t">>
MsgRateLimitLower == <<"r", "a", "t", "e", " ", "l", "i", "m", "i", "t", " ", "h", "i", "t">>
MsgRateLimitUpper == <<"R", "A", "T", "E", " ", "L", "I", "M", "I", "T">>
MsgQuota == <<"Q", "u", "o", "t", "a", " ", "u", "s", "e", "d", " ", "u", "p">>
MsgQuotaLower == <<"o", "v", "e", "r", " ", "q", "u", "o", "t", "a">>
MsgTimeout == <<"t", "i", "m", "e", "o", "u", "t">>
Messages == {Msg429, MsgRateLimit, MsgRateLimitLower, MsgRateLimitUpper, MsgQuota,
             MsgQuotaLower, MsgTimeout}

IsRateLimitAlways(error_msg) == TRUE

\* rag_pipeline.py:197
IsRateLimit(error_msg) ==
    \/ Contains(error_msg, <<"4", "2", "9">>)
    \/ Contains(error_msg, <<"R", "a", "t", "e", " ", "l", "i", "m", "i", "t">>)
    \/ Contains(Lower(error_msg), <<"q", "u", "o", "t", "a">>)

max_retries_plus_one == 5 + 1

\* rag_pipeline.py:185
max_retries == 5
\* rag_pipeline.py:186
base_delay == 20

\* wait_time doubling the delay with every attempt
wait_timeExponential(attempt) == base_delay * (2 ^ attempt) + 60

\* rag_pipeline.py:198
wait_time(attempt) == base_delay * (attempt + 1) + 60

\* rag_pipeline.py:207
RetriesExhausted == [exception |-> <<"Failed to process query after", max_retries,
                                     "retries due to rate limits.">>]

\* The credential each provider reads, rag_pipeline.py:24, 43, 60, 72
Credential ==
    [p \in {"openai", "grok", "gemini", "groq"} |->
        CASE p = "openai" -> "OPENAI_API_KEY"
          [] p = "grok" -> "XAI_API_KEY"
          [] p = "gemini" -> "GOOGLE_API_KEY"
          [] p = "groq" -> "GROQ_API_KEY"]

Providers == (DOMAIN Credential) \cup {"vertex"}

\* rag_pipeline.py:17-81: a client, or the exception raised
get_llm(provider, env) ==
    IF provider \notin Providers
    THEN [exception |-> <<"ValueError", "Unknown LLM provider", provider>>]
    ELSE IF ~env.installed
    THEN [exception |-> <<"ImportError", "not installed", provider>>]
    ELSE IF provider \in DOMAIN Credential /\ Credential[provider] \notin env.keys
    THEN [exception |-> <<"ValueError", "not found", Credential[provider]>>]
    ELSE [client |-> provider]

\* How a call ends
Returns(value) == [how |-> "return", value |-> value]
Raises(e) == [how |-> "raise", value |-> e]
StillRunning == [how |-> "running"]

\* rag_pipeline.py:93-94 and 133-134
IndexFailure(e) == Returns([error |-> <<"Failed to load index/embeddings", e>>])

LlmFailurePropagates(e) == Raises(e)

\* rag_pipeline.py:102-103 and 127-128
LlmFailure(e) == Returns([error |-> <<"Failed to initialize LLM", e>>])

\* rag_pipeline.py:138-161: the local variables after the prompt is chosen
ChoosePrompt(loc, env) ==
    LET system_prompt == IF loc.system_prompt = None THEN env.RAG_SYSTEM_PROMPT
                         ELSE loc.system_prompt
        prompt_version == IF loc.system_prompt = None /\ env.RAG_PROMPT_VERSION \notin {None, ""}
                          THEN env.RAG_PROMPT_VERSION
                          ELSE loc.prompt_version
    IN  [loc EXCEPT !.system_prompt = system_prompt,
                    !.prompt_version = prompt_version,
                    !.prompt = IF system_prompt \notin {None, ""}
                               THEN <<"system", system_prompt>>
                               ELSE <<"default template">>]

\* rag_pipeline.py:210-216
Formatted(query, final_result, prompt_version) ==
    [query |-> query,
     answer |-> final_result.answer,
     retrieved_chunks |-> final_result.context,
     retrieved_metadata |-> <<"metadata of", final_result.context>>,
     prompt_version |-> prompt_version]

\* No call of rag() is being looked at
RagIdle ==
    /\ rag_args = EmptyDict
    /\ environ = EmptyDict
    /\ rag_pc = "idle"
    /\ rag_local = EmptyDict
    /\ rag_out = EmptyDict
    /\ rag_log = << >>

\* No scoring run is being looked at process by process
ScIdle ==
    /\ sc_args = EmptyDict
    /\ os_environ = EmptyDict
    /\ sc_pc = <<"idle">>
    /\ sc_env = EmptyDict
    /\ sc_log = << >>

\* No call of aggregate_scores() is being looked at
AggIdle ==
    /\ agg_args = EmptyDict
    /\ score_files = << >>
    /\ agg_pc = "idle"
    /\ agg_local = EmptyDict
    /\ agg_reports = EmptyDict
    /\ agg_log = << >>

-----------------------------------------------------------------------------
(* Orchestrator, run_eval.py: the collaborators as the orchestrator sees them *)

\* What the three scoring procedures leave behind in one environment:
\* <<retrieval, generation, ragas>>.
ScoreOutcomes == << <<50, 70, 90>>, <<95, 70, 30>> >>

Oracles == [fault : Faults, rep : 1..Len(ScoreOutcomes)]

\* The report the aggregator run with --save_name p_ver writes in each environment
ReportsWritten ==
    [i \in 1..Len(ScoreOutcomes) |->
        [p_ver \in DOMAIN PROMPT_VERSIONS |->
            Report(p_ver, ScoreOutcomes[i][1], ScoreOutcomes[i][2], ScoreOutcomes[i][3])]]

\* rag_pipeline.py:83-216 as called at run_eval.py:141: an answer with its evidence,
\* an error result (index or LLM unavailable), or an exception (retries exhausted,
\* or an error that is no rate limit).
rag(query, system_prompt, prompt_version) ==
    IF \E m \in {"error", "raise"} : oracle.fault = <<"rag", query, prompt_version, m>>
    THEN IF oracle.fault[4] = "error"
         THEN [error |-> "Failed to load index/embeddings or to initialize LLM"]
         ELSE [exception |-> "rate-limit retries exhausted, or an error that is no rate limit"]
    ELSE [query |-> query,
          answer |-> <<"answer", query, system_prompt>>,
          retrieved_chunks |-> <<"chunks", query>>,
          retrieved_metadata |-> <<"sources", query>>,
          prompt_version |-> prompt_version]

\* generate_change_summary without the handler's placeholder
generate_change_summaryUnhandled(baseline_response, new_response, question) ==
    IF oracle.fault = <<"compare", question>>
    THEN <<"error", "Failed to generate change summary">>
    ELSE <<"summary", baseline_response, new_response>>

\* run_eval.py:45-78
generate_change_summary(baseline_response, new_response, question) ==
    IF oracle.fault = <<"compare", question>>
    THEN "Comparison failed."
    ELSE <<"summary", baseline_response, new_response>>

\* run_eval.py:20-43: the exit code of the k-th command of p_ver's scoring pass
ReturnCode(k, p_ver) == IF oracle.fault = <<"cmd", k, p_ver>> THEN 1 ELSE 0

\* run_eval.py:176-185: the report files a successful command leaves behind. Only the
\* aggregator's report (aggregate_scores.py:98-101) is read by the orchestrator.
CommandEffect(k, p_ver, reps) ==
    IF k = Len(Commands) /\ oracle.fault # <<"noreport", p_ver>>
    THEN Put(reps, p_ver, ReportsWritten[oracle.rep][p_ver])
    ELSE reps

-----------------------------------------------------------------------------
(* Orchestrator: the store operations of run_prompt_version_eval *)

\* A file: absent, or holding JSON data
NoFile == [exists |-> FALSE, data |-> EmptyDict]
FileWith(data) == [exists |-> TRUE, data |-> data]

\* run_eval.py:102-106 and 112-116
LoadResults(file) == IF file.exists THEN file.data ELSE EmptyDict

\* run_eval.py:135-136
EnsureQuestion(fr, question) ==
    IF question \notin DOMAIN fr
    THEN Put(fr, question, [question |-> question, prompt_results |-> EmptyDict])
    ELSE fr

NeedsGenerationAlways(fr, question, p_ver) == TRUE

\* run_eval.py:138
NeedsGeneration(fr, question, p_ver) == p_ver \notin DOMAIN fr[question].prompt_results

\* run_eval.py:149-154
WantsSummary(fr, question, p_ver) ==
    p_ver # "prompt_v0" /\ "prompt_v0" \in DOMAIN fr[question].prompt_results

NewEntrySummaryWithoutBaseline(fr, question, p_ver, res) ==
    LET entry == [response |-> res.answer,
                  metadata |-> [key \in (DOMAIN res) \ {"answer"} |-> res[key]]]
        baseline == IF "prompt_v0" \in DOMAIN fr[question].prompt_results
                    THEN fr[question].prompt_results["prompt_v0"].response
                    ELSE None
    IN  IF p_ver # "prompt_v0"
        THEN Put(entry, "change_summary",
                 generate_change_summary(baseline, res.answer, question))
        ELSE entry

\* NewEntry that keeps the whole result of the engine as metadata
NewEntryKeepingAnswer(fr, question, p_ver, res) ==
    LET entry == [response |-> res.answer, metadata |-> res]
    IN  IF WantsSummary(fr, question, p_ver)
        THEN Put(entry, "change_summary",
                 generate_change_summary(fr[question].prompt_results["prompt_v0"].response,
                                         res.answer, question))
        ELSE entry

\* run_eval.py:143-156
NewEntry(fr, question, p_ver, res) ==
    LET entry == [response |-> res.answer,
                  metadata |-> [key \in (DOMAIN res) \ {"answer"} |-> res[key]]]
    IN  IF WantsSummary(fr, question, p_ver)
        THEN Put(entry, "change_summary",
                 generate_change_summary(fr[question].prompt_results["prompt_v0"].response,
                                         res.answer, question))
        ELSE entry

\* run_eval.py:158
StoreEntry(fr, question, p_ver, entry) ==
    [fr EXCEPT ![question].prompt_results = Put(@, p_ver, entry)]

AttachScoresOnlyUnscored(fr, p_ver, scores) ==
    [q \in DOMAIN fr |->
        IF p_ver \in DOMAIN fr[q].prompt_results
           /\ "scores" \notin DOMAIN fr[q].prompt_results[p_ver]
        THEN [fr[q] EXCEPT !.prompt_results[p_ver] =
                               Put(@, "scores", Put(scores, "prompt_version", p_ver))]
        ELSE fr[q]]

\* run_eval.py:197-202
AttachScores(fr, p_ver, scores) ==
    [q \in DOMAIN fr |->
        IF p_ver \in DOMAIN fr[q].prompt_results
        THEN [fr[q] EXCEPT !.prompt_results[p_ver] =
                               Put(@, "scores", Put(scores, "prompt_version", p_ver))]
        ELSE fr[q]]

AllKnownFirstOnly(versions) == versions[1] \in DOMAIN PROMPT_VERSIONS

\* run_eval.py:236-239
AllKnown(versions) == \A i \in 1..Len(versions) : versions[i] \in DOMAIN PROMPT_VERSIONS

-----------------------------------------------------------------------------
(* Orchestrator: the steps of one process, as functions of the process state *)

Prog == [pc |-> pc, p_idx |-> p_idx, item_idx |-> item_idx, cmd_idx |-> cmd_idx,
         full_results |-> full_results, output_file |-> output_file, reports |-> reports]

Becomes(s) ==
    /\ pc' = s.pc
    /\ p_idx' = s.p_idx
    /\ item_idx' = s.item_idx
    /\ cmd_idx' = s.cmd_idx
    /\ full_results' = s.full_results
    /\ output_file' = s.output_file
    /\ reports' = s.reports
    /\ UNCHANGED <<ragVars, aggVars, scVars>>

InitProg(s) ==
    /\ pc = s.pc
    /\ p_idx = s.p_idx
    /\ item_idx = s.item_idx
    /\ cmd_idx = s.cmd_idx
    /\ full_results = s.full_results
    /\ output_file = s.output_file
    /\ reports = s.reports

Running == {"main", "load", "variant", "item", "save", "cmd", "harvest"}
Ended == {"done", "rejected", "aborted", "crashed", "killed"}

\* The process ends (return, sys.exit, uncaught exception, kill): its memory is gone.
Exit(s, how) ==
    [s EXCEPT !.pc = how, !.p_idx = 0, !.item_idx = 0, !.cmd_idx = 0,
              !.full_results = EmptyDict]

PVer(s) == versions_to_run[s.p_idx]
Question(s) == test_data[s.item_idx]

\* run_eval.py:233-242
ValidateStep(s) ==
    IF AllKnown(versions_to_run) THEN [s EXCEPT !.pc = "load"] ELSE Exit(s, "rejected")

\* run_eval.py:86-106
LoadStep(s) ==
    IF oracle.fault = <<"nofile">>
    THEN Exit(s, "done")
    ELSE [s EXCEPT !.pc = "variant", !.p_idx = 1,
                   !.full_results = LoadResults(s.output_file)]

\* run_eval.py:110-116, and 209 when the list is exhausted
VariantStep(s) ==
    IF s.p_idx <= Len(versions_to_run)
    THEN [s EXCEPT !.pc = "item", !.item_idx = 1,
                   !.full_results = LoadResults(s.output_file)]
    ELSE Exit(s, "done")

\* ScoringStep that runs the aggregator alone, not the three scoring procedures
ScoringStepAggregatorOnly(s) ==
    IF PVer(s) \in DOMAIN PROMPT_VERSIONS
    THEN [s EXCEPT !.pc = "cmd", !.cmd_idx = Len(Commands)]
    ELSE Exit(s, "crashed")

\* run_eval.py:165-172, reached when the loop over test_data is exhausted
ScoringStep(s) ==
    IF PVer(s) \in DOMAIN PROMPT_VERSIONS
    THEN [s EXCEPT !.pc = "cmd", !.cmd_idx = 1]
    ELSE Exit(s, "crashed")

\* ItemStep that stores what the engine returned, answer or not
ItemStepStoringError(s) ==
    IF s.item_idx > Len(test_data) THEN ScoringStep(s)
    ELSE IF Question(s) = NoQuery THEN [s EXCEPT !.item_idx = @ + 1]
    ELSE LET fr == EnsureQuestion(s.full_results, Question(s)) IN
         IF ~NeedsGeneration(fr, Question(s), PVer(s))
         THEN [s EXCEPT !.full_results = fr, !.item_idx = @ + 1]
         ELSE LET res == rag(Question(s), PromptGet(PVer(s)), PVer(s)) IN
              IF "answer" \notin DOMAIN res
              THEN [s EXCEPT !.pc = "save",
                             !.full_results =
                                 StoreEntry(fr, Question(s), PVer(s),
                                            [response |-> None, metadata |-> res])]
              ELSE [s EXCEPT !.pc = "save",
                             !.full_results =
                                 StoreEntry(fr, Question(s), PVer(s),
                                            NewEntry(fr, Question(s), PVer(s), res))]

\* run_eval.py:131-158, one iteration of the loop over test_data
ItemStep(s) ==
    IF s.item_idx > Len(test_data) THEN ScoringStep(s)
    ELSE IF Question(s) = NoQuery THEN [s EXCEPT !.item_idx = @ + 1]
    ELSE LET fr == EnsureQuestion(s.full_results, Question(s)) IN
         IF ~NeedsGeneration(fr, Question(s), PVer(s))
         THEN [s EXCEPT !.full_results = fr, !.item_idx = @ + 1]
         ELSE LET res == rag(Question(s), PromptGet(PVer(s)), PVer(s)) IN
              IF "answer" \notin DOMAIN res
              THEN Exit(s, "crashed")
              ELSE [s EXCEPT !.pc = "save",
                             !.full_results =
                                 StoreEntry(fr, Question(s), PVer(s),
                                            NewEntry(fr, Question(s), PVer(s), res))]

\* SaveStep that leaves the store to be written by the harvest
SaveStepBatched(s) == [s EXCEPT !.item_idx = @ + 1, !.pc = "item"]

\* run_eval.py:160-163
SaveStep(s) ==
    [s EXCEPT !.output_file = FileWith(s.full_results), !.item_idx = @ + 1, !.pc = "item"]

run_commandIgnoringExit(s) ==
    [s EXCEPT !.reports = CommandEffect(s.cmd_idx, PVer(s), s.reports),
              !.cmd_idx = @ + 1,
              !.pc = IF s.cmd_idx = Len(Commands) THEN "harvest" ELSE "cmd"]

\* run_eval.py:20-43 for the command at run_eval.py:176, 179, 182 or 185
run_command(s) ==
    IF ReturnCode(s.cmd_idx, PVer(s)) # 0
    THEN Exit(s, "aborted")
    ELSE [s EXCEPT !.reports = CommandEffect(s.cmd_idx, PVer(s), s.reports),
                   !.cmd_idx = @ + 1,
                   !.pc = IF s.cmd_idx = Len(Commands) THEN "harvest" ELSE "cmd"]

\* HarvestStep that gives up when the report is absent
HarvestStepGivingUp(s) ==
    IF PVer(s) \in DOMAIN s.reports
    THEN LET fr == AttachScores(s.full_results, PVer(s), s.reports[PVer(s)]) IN
         [s EXCEPT !.full_results = fr, !.output_file = FileWith(fr),
                   !.p_idx = @ + 1, !.cmd_idx = 0, !.pc = "variant"]
    ELSE Exit(s, "crashed")

\* run_eval.py:187-207
HarvestStep(s) ==
    IF PVer(s) \in DOMAIN s.reports
    THEN LET fr == AttachScores(s.full_results, PVer(s), s.reports[PVer(s)]) IN
         [s EXCEPT !.full_results = fr, !.output_file = FileWith(fr),
                   !.p_idx = @ + 1, !.cmd_idx = 0, !.pc = "variant"]
    ELSE [s EXCEPT !.p_idx = @ + 1, !.cmd_idx = 0, !.pc = "variant"]

\* One step of the process
Step(s) ==
    CASE s.pc = "main" -> ValidateStep(s)
      [] s.pc = "load" -> LoadStep(s)
      [] s.pc = "variant" -> VariantStep(s)
      [] s.pc = "item" -> ItemStep(s)
      [] s.pc = "save" -> SaveStep(s)
      [] s.pc = "cmd" -> run_command(s)
      [] s.pc = "harvest" -> HarvestStep(s)

\* The process as started by the command line, main() at run_eval.py:212
Started(file, reps) ==
    [pc |-> "main", p_idx |-> 0, item_idx |-> 0, cmd_idx |-> 0,
     full_results |-> EmptyDict, output_file |-> file, reports |-> reps]

\* No orchestrator process is being looked at
OrchIdle ==
    /\ versions_to_run = << >>
    /\ oracle = EmptyDict
    /\ InitProg([Started(NoFile, EmptyDict) EXCEPT !.pc = "idle"])
    /\ trace = << >>
    /\ runs = 0
    /\ resumes = 0
    /\ origin = EmptyDict

-----------------------------------------------------------------------------
(* Orchestrator: the actions *)

Init ==
    /\ RagIdle
    /\ AggIdle
    /\ ScIdle
    /\ versions_to_run \in VersionLists
    /\ oracle \in Oracles
    /\ oracle.rep = 1      \* other scores come with RunOtherEnvironment
    /\ InitProg(Started(NoFile, EmptyDict))
    /\ trace = << >>
    /\ runs = 1
    /\ resumes = 0
    /\ origin = [output_file |-> NoFile, reports |-> EmptyDict]

Inputs == <<versions_to_run, oracle>>
History == <<runs, resumes, origin>>

Main ==
    /\ pc = "main"
    /\ Becomes(ValidateStep(Prog))
    /\ UNCHANGED <<Inputs, History, trace>>

LoadTestData ==
    /\ pc = "load"
    /\ Becomes(LoadStep(Prog))
    /\ UNCHANGED <<Inputs, History, trace>>

NextVariant ==
    /\ pc = "variant"
    /\ p_idx <= Len(versions_to_run)
    /\ Becomes(VariantStep(Prog))
    /\ UNCHANGED <<Inputs, History, trace>>

Finish ==
    /\ pc = "variant"
    /\ p_idx > Len(versions_to_run)
    /\ Becomes(VariantStep(Prog))
    /\ UNCHANGED <<Inputs, History, trace>>

AtQuestion ==
    /\ pc = "item"
    /\ item_idx <= Len(test_data)
    /\ Question(Prog) # NoQuery

MustGenerate ==
    /\ AtQuestion
    /\ NeedsGeneration(EnsureQuestion(full_results, Question(Prog)), Question(Prog), PVer(Prog))

SkipItem ==
    /\ pc = "item"
    /\ item_idx <= Len(test_data)
    /\ Question(Prog) = NoQuery
    /\ Becomes(ItemStep(Prog))
    /\ UNCHANGED <<Inputs, History, trace>>

SkipExisting ==
    /\ AtQuestion
    /\ ~MustGenerate
    /\ Becomes(ItemStep(Prog))
    /\ UNCHANGED <<Inputs, History, trace>>

Generate ==
    /\ MustGenerate
    /\ ItemStep(Prog).pc = "save"
    /\ Becomes(ItemStep(Prog))
    /\ trace' = trace \o << <<"rag", Question(Prog), PVer(Prog)>> >>
                      \o (IF WantsSummary(EnsureQuestion(full_results, Question(Prog)),
                                          Question(Prog), PVer(Prog))
                          THEN << <<"compare", Question(Prog), PVer(Prog)>> >>
                          ELSE << >>)
    /\ UNCHANGED <<Inputs, History>>

GenerateFails ==
    /\ MustGenerate
    /\ ItemStep(Prog).pc = "crashed"
    /\ Becomes(ItemStep(Prog))
    /\ trace' = Append(trace, <<"rag", Question(Prog), PVer(Prog)>>)
    /\ UNCHANGED <<Inputs, History>>

SaveIntermediate ==
    /\ pc = "save"
    /\ Becomes(SaveStep(Prog))
    /\ trace' = trace \o << <<"write">>, <<"sleep", 2>> >>
    /\ UNCHANGED <<Inputs, History>>

BeginScoring ==
    /\ pc = "item"
    /\ item_idx > Len(test_data)
    /\ Becomes(ItemStep(Prog))
    /\ UNCHANGED <<Inputs, History, trace>>

RunCommandOk ==
    /\ pc = "cmd"
    /\ run_command(Prog).pc # "aborted"
    /\ Becomes(run_command(Prog))
    /\ trace' = Append(trace, <<"cmd", cmd_idx, PVer(Prog), ReturnCode(cmd_idx, PVer(Prog))>>)
    /\ UNCHANGED <<Inputs, History>>

RunCommandFails ==
    /\ pc = "cmd"
    /\ run_command(Prog).pc = "aborted"
    /\ Becomes(run_command(Prog))
    /\ trace' = Append(trace, <<"cmd", cmd_idx, PVer(Prog), ReturnCode(cmd_idx, PVer(Prog))>>)
    /\ UNCHANGED <<Inputs, History>>

HarvestAttach ==
    /\ pc = "harvest"
    /\ PVer(Prog) \in DOMAIN reports
    /\ Becomes(HarvestStep(Prog))
    /\ trace' = Append(trace, <<"write">>)
    /\ UNCHANGED <<Inputs, History>>

HarvestMissing ==
    /\ pc = "harvest"
    /\ PVer(Prog) \notin DOMAIN reports
    /\ Becomes(HarvestStep(Prog))
    /\ trace' = Append(trace, <<"warning", PVer(Prog)>>)
    /\ UNCHANGED <<Inputs, History>>

\* The process is killed from outside (Ctrl-C, power loss) between two steps;
\* nothing of it is left but the files.
Interrupt ==
    /\ pc \in Running
    /\ Becomes(Exit(Prog, "killed"))
    /\ trace' = << >>
    /\ UNCHANGED <<Inputs, History>>

\* The command line is run again with the same arguments and environment.
Restart ==
    /\ pc \in Ended
    /\ runs < MaxRuns
    /\ Becomes(Started(output_file, reports))
    /\ trace' = << >>
    /\ runs' = runs + 1
    /\ resumes' = resumes + 1
    /\ UNCHANGED <<Inputs, origin>>

\* The command line is run again with another --prompt_versions list.
RunOtherList ==
    /\ pc \in Ended
    /\ runs < MaxRuns
    /\ versions_to_run' \in VersionLists \ {versions_to_run}
    /\ Becomes(Started(output_file, reports))
    /\ trace' = << >>
    /\ runs' = runs + 1
    /\ resumes' = 0
    /\ origin' = [output_file |-> output_file, reports |-> reports]
    /\ UNCHANGED oracle

\* The command line is run again in another environment: the fault is repaired,
\* or the scoring procedures come to other scores.
RunOtherEnvironment ==
    /\ pc \in Ended
    /\ runs < MaxRuns
    /\ oracle' \in {[oracle EXCEPT !.fault = <<"none">>],
                   [oracle EXCEPT !.rep = (@ % Len(ScoreOutcomes)) + 1]} \ {oracle}
    /\ Becomes(Started(output_file, reports))
    /\ trace' = << >>
    /\ runs' = runs + 1
    /\ resumes' = 0
    /\ origin' = [output_file |-> output_file, reports |-> reports]
    /\ UNCHANGED versions_to_run

\* The command line is run again after the report of a variant was lost, in an
\* environment in which the aggregator leaves none (run_eval.py:188-189 finds
\* no file).
RunAfterReportLoss ==
    /\ pc \in Ended
    /\ runs < MaxRuns
    /\ oracle.fault = <<"none">>
    /\ \E p_ver \in DOMAIN reports :
          /\ oracle' = [oracle EXCEPT !.fault = <<"noreport", p_ver>>]
          /\ Becomes(Started(output_file,
                             [v \in (DOMAIN reports) \ {p_ver} |-> reports[v]]))
          /\ origin' = [output_file |-> output_file,
                        reports |-> [v \in (DOMAIN reports) \ {p_ver} |-> reports[v]]]
    /\ trace' = << >>
    /\ runs' = runs + 1
    /\ resumes' = 0
    /\ UNCHANGED versions_to_run

Next ==
    \/ Main \/ LoadTestData \/ NextVariant \/ Finish
    \/ SkipItem \/ SkipExisting \/ Generate \/ GenerateFails \/ SaveIntermediate
    \/ BeginScoring \/ RunCommandOk \/ RunCommandFails
    \/ HarvestAttach \/ HarvestMissing
    \/ Interrupt \/ Restart \/ RunOtherList \/ RunOtherEnvironment
    \/ RunAfterReportLoss

Spec == Init /\ [][Next]_vars

-----------------------------------------------------------------------------
(* Orchestrator: what the claims speak of *)

\* The process run from start to end with nothing interrupting it
RECURSIVE RunToEnd(_)
RunToEnd(s) == IF s.pc \in Ended THEN s ELSE RunToEnd(Step(s))

\* The (question, version) cells of a store
CellsOf(data) ==
    {c \in Questions \X VersionIds :
        c[1] \in DOMAIN data /\ c[2] \in DOMAIN data[c[1]].prompt_results}
Cell(data, c) == data[c[1]].prompt_results[c[2]]

\* response, metadata and change_summary of a cell: all but its scores
Core(entry) == [key \in (DOMAIN entry) \ {"scores"} |-> entry[key]]

\* The events this step adds to the trace (a new process run starts an empty trace)
NewEvents ==
    IF Len(trace') >= Len(trace) /\ SubSeq(trace', 1, Len(trace)) = trace
    THEN {trace'[i] : i \in (Len(trace) + 1)..Len(trace')}
    ELSE {trace'[i] : i \in 1..Len(trace')}

RagEvents == {i \in 1..Len(trace) : trace[i][1] = "rag"}
HasUnknown == \E i \in 1..Len(versions_to_run) : versions_to_run[i] \notin DOMAIN PROMPT_VERSIONS

\* C1: resumption idempotence. Whenever the orchestrator has been run one or more
\* times with the same arguments in the same environment, whatever the points at
\* which the earlier runs were killed, a run that ends by itself leaves the same
\* result store as one uninterrupted run from the files the first of them found.
C1_ResumptionIdempotent ==
    pc \in Ended \ {"killed"}
        => output_file = RunToEnd(Started(origin.output_file, origin.reports)).output_file

\* A restarted run completes after generating some cells itself and finding
\* the others in the store an interrupted run left behind.
C1_Witness ==
    /\ pc = "done" /\ resumes > 0
    /\ RagEvents # {}
    /\ Cardinality(CellsOf(output_file.data)) > Cardinality(RagEvents)

\* C2: skip-if-present. In every step, every cell of the persisted store stays in
\* it with the same response, metadata and change_summary, and the step does not
\* invoke the engine for that cell.
C2_PersistedCellsAreFinal ==
    [][/\ output_file' # output_file
            => \A c \in CellsOf(output_file.data) :
                  /\ c \in CellsOf(output_file'.data)
                  /\ Core(Cell(output_file'.data, c)) = Core(Cell(output_file.data, c))
       /\ trace' # trace
            => \A e \in NewEvents :
                  e[1] = "rag" => <<e[2], e[3]>> \notin CellsOf(output_file.data)]_vars

\* A later run has passed q1 without an engine call because its cell was stored.
C2_Witness ==
    /\ runs > 1 /\ pc = "item" /\ item_idx = 2
    /\ <<"q1", PVer(Prog)>> \in CellsOf(output_file.data)
    /\ RagEvents = {}

\* C3: change-summary presence. A cell that enters the persisted store has a
\* change_summary exactly if its version is not prompt_v0 and the store already
\* held the prompt_v0 cell of its question; no prompt_v0 cell has one.
C3_ChangeSummaryPresence ==
    [][output_file' # output_file =>
       /\ \A c \in CellsOf(output_file'.data) \ CellsOf(output_file.data) :
            ("change_summary" \in DOMAIN Cell(output_file'.data, c))
                <=> (c[2] # "prompt_v0" /\ <<c[1], "prompt_v0">> \in CellsOf(output_file.data))
       /\ \A c \in CellsOf(output_file'.data) :
            c[2] = "prompt_v0" => "change_summary" \notin DOMAIN Cell(output_file'.data, c)]_vars

\* The store holds, for one question, a prompt_v1 cell generated before the
\* baseline (no summary) and, for another, one generated after it (with summary).
C3_Witness ==
    \E q1, q2 \in Questions :
        /\ {<<q1, "prompt_v0">>, <<q1, "prompt_v1">>, <<q2, "prompt_v0">>, <<q2, "prompt_v1">>}
               \subseteq CellsOf(output_file.data)
        /\ "change_summary" \in DOMAIN Cell(output_file.data, <<q1, "prompt_v1">>)
        /\ "change_summary" \notin DOMAIN Cell(output_file.data, <<q2, "prompt_v1">>)

\* C4: unknown-variant rejection. A run whose list holds an identifier outside
\* PROMPT_VERSIONS, at any position, never gets past the validation: no engine
\* call, no external process and no write happens in it, and it ends rejected.
C4_UnknownVariantRejected ==
    HasUnknown => (pc \in {"main", "rejected", "killed"} /\ trace = << >>)

\* A list whose first identifier is known and whose second is not was rejected.
C4_Witness ==
    /\ pc = "rejected"
    /\ Len(versions_to_run) = 2
    /\ versions_to_run[1] \in DOMAIN PROMPT_VERSIONS
    /\ versions_to_run[2] \notin DOMAIN PROMPT_VERSIONS

\* The version whose harvest pass has just run
Harvested == versions_to_run[p_idx - 1]

\* C5: score broadcast. Once the harvest pass of a version with a persisted
\* report has run, every cell of that version in the persisted store carries
\* the report with prompt_version added as its scores.
C5_ScoreBroadcast ==
    (pc = "variant" /\ p_idx > 1 /\ Harvested \in DOMAIN reports)
        => \A q \in DOMAIN output_file.data :
              Harvested \in DOMAIN output_file.data[q].prompt_results
                  => /\ "scores" \in DOMAIN output_file.data[q].prompt_results[Harvested]
                     /\ output_file.data[q].prompt_results[Harvested].scores
                            = Put(reports[Harvested], "prompt_version", Harvested)

\* The harvest pass has given two questions' cells their scores.
C5_Witness ==
    /\ pc = "variant" /\ p_idx > 1 /\ Harvested \in DOMAIN reports
    /\ \A q \in Questions : <<q, Harvested>> \in CellsOf(output_file.data)

FailedCommands(events) == {e \in events : e[1] = "cmd" /\ e[4] # 0}

\* C6: a non-zero exit is fatal. The step in which an external process exits
\* non-zero ends the run with the store and the reports as they were, and after
\* it nothing happens to the store until the command line is run again.
C6_NonZeroExitAborts ==
    [][/\ trace' # trace
            => /\ FailedCommands(NewEvents) # {}
                     => (pc' = "aborted" /\ output_file' = output_file /\ reports' = reports)
               /\ \A i \in 1..Len(trace') :
                     (trace'[i][1] = "cmd" /\ trace'[i][4] # 0) => i = Len(trace')
       /\ pc = "aborted"
            => (pc' \in {"aborted", "main"} /\ output_file' = output_file
                /\ reports' = reports)]_vars

\* The RAGAS scoring of the second version of the list failed after the first
\* version was scored and harvested.
C6_Witness ==
    /\ pc = "aborted"
    /\ Len(versions_to_run) = 2
    /\ Len(trace) > 0
    /\ trace[Len(trace)][1] = "cmd"
    /\ trace[Len(trace)][2] = 3
    /\ trace[Len(trace)][3] = versions_to_run[2]
    /\ trace[Len(trace)][4] # 0

-----------------------------------------------------------------------------
(* Query engine: one call of rag(), rag_pipeline.py:83-216 *)

AllKeys == {Credential[p] : p \in DOMAIN Credential}

RagInputs ==
    [llm_provider : Providers \cup {"mystery"},
     system_prompt : {None, "", "Be brief."},
     prompt_version : {"prompt_v0"}]

Environs ==
    [keys : {{}, AllKeys},
     installed : BOOLEAN,
     RAG_SYSTEM_PROMPT : {None, "Override."},
     RAG_PROMPT_VERSION : {None, "prompt_v1"}]

RagInit ==
    /\ OrchIdle
    /\ AggIdle
    /\ ScIdle
    /\ rag_args \in RagInputs
    /\ environ \in Environs
    /\ rag_pc = "load1"
    /\ rag_local = [system_prompt |-> rag_args.system_prompt,
                    prompt_version |-> rag_args.prompt_version,
                    prompt |-> << >>,
                    attempt |-> 0,
                    error_msg |-> << >>,
                    final_result |-> EmptyDict]
    /\ rag_out = StillRunning
    /\ rag_log = << >>

AfterLoad == [load1 |-> "llm1", load2 |-> "prompt"]
AfterLlm == [llm1 |-> "dotenv", llm2 |-> "load2"]

\* rag_pipeline.py:89-92 and 130-132, 136
LoadIndexOk ==
    /\ rag_pc \in DOMAIN AfterLoad
    /\ rag_pc' = AfterLoad[rag_pc]
    /\ rag_log' = Append(rag_log, <<"load index", "ok">>)
    /\ UNCHANGED <<orchVars, aggVars, scVars, rag_args, environ, rag_local, rag_out>>

\* rag_pipeline.py:93-94 and 133-134
LoadIndexFails ==
    /\ rag_pc \in DOMAIN AfterLoad
    /\ \E cause \in {"no embedding model", "no index file"} :
          rag_out' = IndexFailure(cause)
    /\ rag_pc' = "end"
    /\ rag_log' = Append(rag_log, <<"load index", "failed">>)
    /\ UNCHANGED <<orchVars, aggVars, scVars, rag_args, environ, rag_local>>

\* rag_pipeline.py:100-101 and 125-126
GetLlmOk ==
    /\ rag_pc \in DOMAIN AfterLlm
    /\ "client" \in DOMAIN get_llm(rag_args.llm_provider, environ)
    /\ rag_pc' = AfterLlm[rag_pc]
    /\ rag_log' = Append(rag_log, <<"get_llm", "ok">>)
    /\ UNCHANGED <<orchVars, aggVars, scVars, rag_args, environ, rag_local, rag_out>>

\* rag_pipeline.py:102-103 and 127-128
GetLlmFails ==
    /\ rag_pc \in DOMAIN AfterLlm
    /\ "exception" \in DOMAIN get_llm(rag_args.llm_provider, environ)
    /\ rag_out' = LlmFailure(get_llm(rag_args.llm_provider, environ).exception)
    /\ rag_pc' = "end"
    /\ rag_log' = Append(rag_log, <<"get_llm", "failed">>)
    /\ UNCHANGED <<orchVars, aggVars, scVars, rag_args, environ, rag_local>>

\* rag_pipeline.py:118: the .env file overrides the credentials, or holds none
LoadDotenv ==
    /\ rag_pc = "dotenv"
    /\ \E keys \in {environ.keys, {}, AllKeys} : environ' = [environ EXCEPT !.keys = keys]
    /\ rag_pc' = "llm2"
    /\ UNCHANGED <<orchVars, aggVars, scVars, rag_args, rag_local, rag_out, rag_log>>

\* rag_pipeline.py:138-161
BuildPrompt ==
    /\ rag_pc = "prompt"
    /\ rag_local' = ChoosePrompt(rag_local, environ)
    /\ rag_pc' = "invoke"
    /\ UNCHANGED <<orchVars, aggVars, scVars, rag_args, environ, rag_out, rag_log>>

\* What one rag_chain_with_source.invoke(query) does before it returns or raises:
\* the retriever runs, then the language model unless the retriever raised.
ChainCalls(attempt, stage) ==
    IF stage = "retriever" THEN << <<"retrieve", attempt>> >>
    ELSE << <<"retrieve", attempt>>, <<"llm", attempt>> >>

\* rag_pipeline.py:191-194
InvokeOk ==
    /\ rag_pc = "invoke"
    /\ rag_local.attempt < max_retries
    /\ rag_local' = [rag_local EXCEPT !.final_result =
                        [answer |-> <<"answer of attempt", rag_local.attempt, rag_local.prompt>>,
                         context |-> <<"chunks">>]]
    /\ rag_pc' = "after"
    /\ rag_log' = rag_log \o ChainCalls(rag_local.attempt, "llm")
    /\ UNCHANGED <<orchVars, aggVars, scVars, rag_args, environ, rag_out>>

\* rag_pipeline.py:195-201
InvokeRateLimited ==
    /\ rag_pc = "invoke"
    /\ rag_local.attempt < max_retries
    /\ \E error_msg \in Messages, stage \in {"retriever", "llm"} :
          /\ IsRateLimit(error_msg)
          /\ rag_local' = [rag_local EXCEPT !.error_msg = error_msg, !.attempt = @ + 1]
          /\ rag_log' = rag_log \o ChainCalls(rag_local.attempt, stage)
                                \o << <<"error", rag_local.attempt, "rate limit">>,
                                      <<"sleep", wait_time(rag_local.attempt)>> >>
    /\ rag_pc' = IF rag_local.attempt + 1 < max_retries THEN "invoke" ELSE "after"
    /\ UNCHANGED <<orchVars, aggVars, scVars, rag_args, environ, rag_out>>

\* rag_pipeline.py:195-197 and 202-204
InvokeRaises ==
    /\ rag_pc = "invoke"
    /\ rag_local.attempt < max_retries
    /\ \E error_msg \in Messages, stage \in {"retriever", "llm"} :
          /\ ~IsRateLimit(error_msg)
          /\ rag_local' = [rag_local EXCEPT !.error_msg = error_msg]
          /\ rag_out' = Raises([exception |-> error_msg])
          /\ rag_log' = rag_log \o ChainCalls(rag_local.attempt, stage)
                                \o << <<"error", rag_local.attempt, "other">> >>
    /\ rag_pc' = "end"
    /\ UNCHANGED <<orchVars, aggVars, scVars, rag_args, environ>>

\* rag_pipeline.py:206-207
RaiseExhausted ==
    /\ rag_pc = "after"
    /\ rag_local.final_result = EmptyDict
    /\ rag_out' = Raises(RetriesExhausted)
    /\ rag_pc' = "end"
    /\ UNCHANGED <<orchVars, aggVars, scVars, rag_args, environ, rag_local, rag_log>>

\* rag_pipeline.py:206 and 209-216
ReturnResult ==
    /\ rag_pc = "after"
    /\ rag_local.final_result # EmptyDict
    /\ rag_out' = Returns(Formatted("q1", rag_local.final_result, rag_local.prompt_version))
    /\ rag_pc' = "end"
    /\ UNCHANGED <<orchVars, aggVars, scVars, rag_args, environ, rag_local, rag_log>>

RagNext ==
    \/ LoadIndexOk \/ LoadIndexFails \/ GetLlmOk \/ GetLlmFails \/ LoadDotenv
    \/ BuildPrompt \/ InvokeOk \/ InvokeRateLimited \/ InvokeRaises
    \/ RaiseExhausted \/ ReturnResult

SpecRag == RagInit /\ [][RagNext]_vars


-----------------------------------------------------------------------------
(* Query engine: what the claims speak of *)

LogOf(kind) == {i \in 1..Len(rag_log) : rag_log[i][1] = kind}
\* The attempts that raised, and those that raised an error the engine took
\* for a rate-limit error (which messages it takes for one is the subject of
\* the classification claim, not of the budget)
FailedAttempts == {rag_log[i][2] : i \in LogOf("error")}
RateLimitedAttempts ==
    {rag_log[i][2] : i \in {j \in LogOf("error") : rag_log[j][3] = "rate limit"}}
\* The attempts whose chain invocation returned
GoodAttempts == {rag_log[i][2] : i \in LogOf("retrieve")} \ FailedAttempts

HasRateLimitSignal(error_msg) ==
    \/ Contains(error_msg, <<"4", "2", "9">>)
    \/ Contains(Lower(error_msg), <<"r", "a", "t", "e", " ", "l", "i", "m", "i", "t">>)
    \/ Contains(Lower(error_msg), <<"q", "u", "o", "t", "a">>)

\* C8: an error without a rate-limit signal ("429", or "rate limit" or "quota"
\* in any letter case) is raised at once, on whichever attempt it happens. It
\* is the last thing the call does (no sleep, no further attempt follows it)
\* and it is the exception the caller gets.
C8_OtherErrorsPropagate ==
    (LogOf("error") # {} /\ ~HasRateLimitSignal(rag_local.error_msg))
        => /\ rag_log[Len(rag_log)] = <<"error", rag_local.attempt, "other">>
           /\ rag_pc = "end"
           /\ rag_out = Raises([exception |-> rag_local.error_msg])

\* A timeout on the third attempt, after two rate-limited ones, reached the caller.
C8_Witness ==
    /\ rag_pc = "end"
    /\ FailedAttempts = 0..2
    /\ RateLimitedAttempts = 0..1
    /\ rag_out = Raises([exception |-> MsgTimeout])

SetupFailures ==
    {i \in LogOf("load index") \cup LogOf("get_llm") : rag_log[i][2] = "failed"}

\* C9: engine unavailability is returned, not raised. When loading the
\* embeddings or the index fails, or get_llm fails (unknown provider, missing
\* credential, missing package), the call ends at once returning a dict with an
\* error field that carries the cause; it raises nothing and neither retrieves
\* nor invokes the language model.
C9_UnavailableIsReturned ==
    /\ SetupFailures # {}
          => /\ rag_pc = "end"
             /\ rag_out.how = "return"
             /\ DOMAIN rag_out.value = {"error"}
             /\ \/ /\ rag_log[Len(rag_log)] = <<"load index", "failed">>
                   /\ rag_out.value.error[2] \in {"no embedding model", "no index file"}
                \/ /\ rag_log[Len(rag_log)] = <<"get_llm", "failed">>
                   /\ rag_out.value.error[2] = get_llm(rag_args.llm_provider, environ).exception
             /\ LogOf("retrieve") = {} /\ LogOf("llm") = {}
    /\ (rag_pc = "end" /\ rag_args.llm_provider \notin Providers)
          => (rag_out.how = "return" /\ "error" \in DOMAIN rag_out.value)

\* The second get_llm failed: the .env file had blanked the credential.
C9_Witness ==
    /\ rag_pc = "end"
    /\ Len(rag_log) = 3
    /\ rag_log[3] = <<"get_llm", "failed">>
    /\ rag_out.how = "return"

-----------------------------------------------------------------------------
(* Score aggregator: one call of aggregate_scores(save_name) as a state machine *)

\* data/results/<name>.json holds the key <name>; the local it is loaded into
ScoreNames == <<"retrieval_score", "generation_score", "ragas_score">>
ScoreLocals == <<"retrieval", "generation", "ragas">>

\* The scores a score file may hold, in hundredths
AggScores == {0, 30, 50, 60, 70, 80, 85, 90, 95, 100}

\* A score file is absent, or holds a dict without the key, or holds the score
ScoreFiles(name) ==
    {NoFile, FileWith(EmptyDict)} \cup {FileWith(Put(EmptyDict, name, n)) : n \in AggScores}

\* data/results/report_<name>.json as earlier calls left them: none, or the report
\* of another label, or an earlier report of the label prompt_v1
EarlierReports ==
    {EmptyDict} \cup
    {Put(EmptyDict, name, report_data(name, 0, 0, 0, Rqi(0, 0, 0), Grade(Rqi(0, 0, 0)))) :
        name \in {"groq_v1", "prompt_v1"}}

AggInit ==
    /\ OrchIdle
    /\ RagIdle
    /\ ScIdle
    /\ agg_args \in [save_name : {None, "", "prompt_v1"}]
    /\ \E f1 \in ScoreFiles(ScoreNames[1]), f2 \in ScoreFiles(ScoreNames[2]),
          f3 \in ScoreFiles(ScoreNames[3]) :
          score_files = <<f1, f2, f3>>
    /\ agg_pc = "load1"
    /\ agg_local = EmptyDict
    /\ agg_reports \in EarlierReports
    /\ agg_log = << >>

AggLoading == [load1 |-> 1, load2 |-> 2, load3 |-> 3]
AggAfterLoad == [load1 |-> "load2", load2 |-> "load3", load3 |-> "calculate"]

\* dict.get(key, 0)
GetOrZero(d, key) == IF key \in DOMAIN d THEN d[key] ELSE 0

\* aggregate_scores.py:36-38, 43-45, 50-52
LoadScore ==
    /\ agg_pc \in DOMAIN AggLoading
    /\ LET i == AggLoading[agg_pc] IN
          /\ score_files[i].exists
          /\ agg_local' = Put(agg_local, ScoreLocals[i],
                              GetOrZero(score_files[i].data, ScoreNames[i]))
    /\ agg_pc' = AggAfterLoad[agg_pc]
    /\ UNCHANGED <<orchVars, ragVars, scVars, agg_args, score_files, agg_reports, agg_log>>

\* LoadScoreNotFound with no handler: the exception ends the call
LoadScoreNotFoundFatal ==
    /\ agg_pc \in DOMAIN AggLoading
    /\ ~score_files[AggLoading[agg_pc]].exists
    /\ agg_pc' = "end"
    /\ UNCHANGED <<orchVars, ragVars, scVars, agg_args, score_files, agg_local, agg_reports, agg_log>>

\* aggregate_scores.py:39-41, 46-48, 53-55
LoadScoreNotFound ==
    /\ agg_pc \in DOMAIN AggLoading
    /\ LET i == AggLoading[agg_pc] IN
          /\ ~score_files[i].exists
          /\ agg_local' = Put(agg_local, ScoreLocals[i], 0)
          /\ agg_log' = Append(agg_log, <<"warning", ScoreNames[i]>>)
    /\ agg_pc' = AggAfterLoad[agg_pc]
    /\ UNCHANGED <<orchVars, ragVars, scVars, agg_args, score_files, agg_reports>>

\* aggregate_scores.py:58-81
Calculate ==
    /\ agg_pc = "calculate"
    /\ LET rqi == Rqi(agg_local.retrieval, agg_local.generation, agg_local.ragas) IN
          /\ agg_local' = Put(Put(agg_local, "rqi", rqi), "grade", Grade(rqi))
          /\ agg_log' = Append(agg_log, <<"report", rqi, Grade(rqi)>>)
    /\ agg_pc' = "justify"
    /\ UNCHANGED <<orchVars, ragVars, scVars, agg_args, score_files, agg_reports>>

\* aggregate_scores.py:84-86
Justify ==
    /\ agg_pc = "justify"
    /\ agg_log' = Append(agg_log,
                         <<"justification",
                           get_justification(agg_local.retrieval, agg_local.generation,
                                             agg_local.ragas)>>)
    /\ agg_pc' = "save"
    /\ UNCHANGED <<orchVars, ragVars, scVars, agg_args, score_files, agg_local, agg_reports>>

\* aggregate_scores.py:89-103 with a save_name
SaveReport ==
    /\ agg_pc = "save"
    /\ Truthy(agg_args.save_name)
    /\ agg_reports' = Put(agg_reports, agg_args.save_name,
                          report_data(agg_args.save_name, agg_local.retrieval,
                                      agg_local.generation, agg_local.ragas,
                                      agg_local.rqi, agg_local.grade))
    /\ agg_log' = Append(agg_log, <<"saved", agg_args.save_name>>)
    /\ agg_pc' = "end"
    /\ UNCHANGED <<orchVars, ragVars, scVars, agg_args, score_files, agg_local>>

\* aggregate_scores.py:89-98 without one
SkipSave ==
    /\ agg_pc = "save"
    /\ ~Truthy(agg_args.save_name)
    /\ agg_pc' = "end"
    /\ UNCHANGED <<orchVars, ragVars, scVars, agg_args, score_files, agg_local, agg_reports, agg_log>>

AggNext ==
    \/ LoadScore
    \/ LoadScoreNotFound
    \/ Calculate
    \/ Justify
    \/ SaveReport
    \/ SkipSave

SpecAgg == AggInit /\ [][AggNext]_vars

-----------------------------------------------------------------------------
(* Score aggregator: what the claims speak of *)

\* The grade table of the specification, interval by interval
GradeTable(rqi) ==
    CASE FloatGe(rqi, Float(9, 10)) -> "A+"
      [] FloatGe(rqi, Float(8, 10)) /\ FloatLt(rqi, Float(9, 10)) -> "A"
      [] FloatGe(rqi, Float(7, 10)) /\ FloatLt(rqi, Float(8, 10)) -> "B"
      [] FloatGe(rqi, Float(6, 10)) /\ FloatLt(rqi, Float(7, 10)) -> "C"
      [] FloatGe(rqi, Float(5, 10)) /\ FloatLt(rqi, Float(6, 10)) -> "D"
      [] OTHER -> "F"

BoundaryGrade == [n \in 5..9 |-> <<"D", "C", "B", "A", "A+">>[n - 4]]

\* C10: grade table. Whatever rqi the aggregator computed, the grade it reports
\* is the one the table gives for the interval rqi lies in, and an rqi equal to
\* a boundary value (0.5, 0.6, 0.7, 0.8, 0.9) gets the higher grade.
C10_GradeTable ==
    "grade" \in DOMAIN agg_local
        => /\ agg_local.grade = GradeTable(agg_local.rqi)
           /\ \A n \in 5..9 :
                 agg_local.rqi = Float(n, 10) => agg_local.grade = BoundaryGrade[n]

\* An aggregation whose rqi is exactly 0.9 was graded.
C10_Witness ==
    /\ "grade" \in DOMAIN agg_local
    /\ agg_local.rqi = Float(9, 10)
    /\ agg_local.grade = "A+"

\* The composite of the specification: the double nearest to the exact value of
\* 0.4*retrieval + 0.3*generation + 0.3*ragas, the scores being hundredths
ExactComposite(retrieval, generation, ragas) ==
    Float(4 * retrieval + 3 * generation + 3 * ragas, 1000)

FloatOne == Float(1, 1)

\* C11: composite score. The rqi the aggregator reports equals
\* 0.4*retrieval + 0.3*generation + 0.3*ragas and lies in [0,1]; the scores
\* (0.5, 0.7, 0.9) and (0.95, 0.7, 0.3) both give rqi 0.68 and grade C.
C11_CompositeScore ==
    "rqi" \in DOMAIN agg_local
        => LET scores == <<agg_local.retrieval, agg_local.generation, agg_local.ragas>> IN
              /\ agg_local.rqi = ExactComposite(scores[1], scores[2], scores[3])
              /\ FloatGe(agg_local.rqi, FloatZero)
              /\ FloatGe(FloatOne, agg_local.rqi)
              /\ scores \in {<<50, 70, 90>>, <<95, 70, 30>>}
                    => agg_local.rqi = Score[68] /\ agg_local.grade = "C"

\* The justification the aggregator printed, once it has
Justified == \E i \in DOMAIN agg_log : agg_log[i][1] = "justification"

Justification ==
    agg_log[CHOOSE i \in DOMAIN agg_log : agg_log[i][1] = "justification"][2]

\* The three single-metric rules of the specification, on scores in hundredths
RetrievalRule(retrieval) ==
    IF retrieval < 60 THEN <<"Retrieval is the bottleneck">> ELSE <<"Retrieval is healthy">>

GenerationRule(generation) ==
    IF generation < 60 THEN <<"Factuality is low">>
    ELSE IF generation > 80 THEN <<"Factuality is high">> ELSE << >>

RagasRule(ragas) ==
    IF ragas < 60 THEN <<"Reasoning is poor">>
    ELSE IF ragas > 80 THEN <<"Reasoning is strong">> ELSE << >>

\* C12: justification compound rule. The "good retrieval, bad reasoning"
\* message is in the justification exactly if retrieval > 0.8 and ragas < 0.5;
\* it comes after the single-metric messages, and these are exactly what the
\* three single-metric rules give on their own.
C12_CompoundRuleAdditive ==
    Justified
        => LET single == RetrievalRule(agg_local.retrieval)
                            \o GenerationRule(agg_local.generation)
                            \o RagasRule(agg_local.ragas)
               paradox == agg_local.retrieval > 80 /\ agg_local.ragas < 50
           IN  /\ paradox <=> \E i \in DOMAIN Justification : Justification[i] = "RAG Paradox"
               /\ Justification = IF paradox THEN Append(single, "RAG Paradox") ELSE single

\* Retrieval 0.95 with ragas 0.3: the compound message was printed after the
\* messages on retrieval and on reasoning.
C12_Witness ==
    /\ Justified
    /\ agg_local.retrieval = 95
    /\ agg_local.ragas = 30
    /\ Len(Justification) >= 3
    /\ Justification[Len(Justification)] = "RAG Paradox"

\* The score files the aggregator has gone past so far
Loaded == {i \in 1..3 : ScoreLocals[i] \in DOMAIN agg_local}

Warnings == {agg_log[i][2] : i \in {k \in DOMAIN agg_log : agg_log[k][1] = "warning"}}

\* A step taken where the score file to load is absent leads to the next step
\* of the call, the score being set
MissingScoreGoesOn ==
    agg_pc \in DOMAIN AggLoading /\ ~score_files[AggLoading[agg_pc]].exists
        => /\ agg_pc' = AggAfterLoad[agg_pc]
           /\ ScoreLocals[AggLoading[agg_pc]] \in DOMAIN agg_local'

\* C13: missing score source. For each of the three score files on its own: if
\* the file is absent the aggregator uses 0 for that score and prints a warning
\* (and warns of no file that is there); no exception ends the call, which goes
\* on to the next step; and the full report is produced, rqi and grade computed
\* from the scores with the zeros put in.
C13_MissingScoreIsZero ==
    /\ [](/\ \A i \in Loaded :
               ~score_files[i].exists
                   => agg_local[ScoreLocals[i]] = 0 /\ ScoreNames[i] \in Warnings
          /\ Warnings = {ScoreNames[i] : i \in {k \in Loaded : ~score_files[k].exists}}
          /\ agg_pc \in {"justify", "save", "end"}
                => LET rqi == Rqi(agg_local.retrieval, agg_local.generation, agg_local.ragas) IN
                      /\ Loaded = 1..3
                      /\ agg_local.rqi = rqi
                      /\ agg_local.grade = Grade(rqi)
                      /\ \E i \in DOMAIN agg_log : agg_log[i] = <<"report", rqi, Grade(rqi)>>
          /\ agg_pc = "end"
                => /\ Justified
                   /\ Truthy(agg_args.save_name)
                         => /\ agg_args.save_name \in DOMAIN agg_reports
                            /\ agg_reports[agg_args.save_name].generation = agg_local.generation
                            /\ agg_reports[agg_args.save_name].rqi = agg_local.rqi)
    /\ [][MissingScoreGoesOn]_vars

\* A call that found no generation score file, and the other two, ended with a
\* saved report whose generation score is 0 and whose rqi is not.
C13_Witness ==
    /\ agg_pc = "end"
    /\ score_files[1].exists /\ ~score_files[2].exists /\ score_files[3].exists
    /\ Warnings = {"generation_score"}
    /\ "prompt_v1" \in DOMAIN agg_reports
    /\ agg_reports["prompt_v1"].generation = 0
    /\ agg_reports["prompt_v1"].rqi # FloatZero

\* C14: backoff sleep. The retry loop sleeps only when a rate-limit error was
\* matched and a further attempt remains: the 5th (last) rate-limited failure
\* is followed by the retries-exhausted error and by no sleep, so that a call
\* sleeps at most 4 times.
C14_SleepOnlyBeforeRetry ==
    /\ Cardinality(LogOf("sleep")) <= 4
    /\ \A i \in LogOf("sleep") :
          /\ i > 1
          /\ rag_log[i - 1][1] = "error"
          /\ rag_log[i - 1][3] = "rate limit"
          /\ rag_log[i - 1][2] < 4
    /\ rag_out = Raises([exception |-> <<"Failed to process query after", 5,
                                         "retries due to rate limits.">>])
          => rag_log[Len(rag_log)][1] = "error"

\* The last error event of the call, whose message is rag_local.error_msg
LastError == rag_log[CHOOSE i \in LogOf("error") : \A j \in LogOf("error") : j <= i]

\* C15: rate-limit classification. An error whose message holds "429", or
\* "rate limit" in any letter case, or "quota" in any letter case, is taken for
\* a rate-limit error and retried (it is not raised to the caller); every other
\* error is not (it is raised at once).
C15_CaseInsensitiveMatch ==
    LogOf("error") # {}
        => /\ LastError[3] = "rate limit" <=> HasRateLimitSignal(rag_local.error_msg)
           /\ HasRateLimitSignal(rag_local.error_msg)
                 => rag_out # Raises([exception |-> rag_local.error_msg])
           /\ ~HasRateLimitSignal(rag_local.error_msg)
                 => rag_out = Raises([exception |-> rag_local.error_msg])

\* C16: the retry wraps only the language-model invocation. Within one call,
\* the index is loaded at most once and the passages are retrieved at most
\* once, however many rate-limited attempts occur; only the language-model
\* call is repeated.
C16_RetryWrapsOnlyLlm ==
    /\ Cardinality(LogOf("retrieve")) <= 1
    /\ Cardinality(LogOf("load index")) <= 1

\* An instruction text, or a label, that exists: neither missing nor empty
Exists(text) == text \notin {None, ""}

PromptChosen == rag_local.prompt # << >>

\* The call returned an answer (not an error dict)
Answered == rag_out.how = "return" /\ "answer" \in DOMAIN rag_out.value

\* C19: prompt precedence in the engine. If system_prompt is supplied, the
\* instruction used is that text and the returned label is the caller's
\* prompt_version, whatever the override variables hold; only if system_prompt
\* is absent are the override variables consulted (the override text becomes
\* the instruction, the override label replaces the label); the default
\* template is used only when neither an explicit nor an override instruction
\* text exists.
C19_PromptPrecedence ==
    LET label == IF Answered THEN rag_out.value.prompt_version ELSE rag_local.prompt_version
    IN  PromptChosen
            => /\ Exists(rag_args.system_prompt)
                     => /\ rag_local.prompt = <<"system", rag_args.system_prompt>>
                        /\ label = rag_args.prompt_version
               /\ rag_args.system_prompt = None
                     => /\ rag_local.prompt = IF Exists(environ.RAG_SYSTEM_PROMPT)
                                              THEN <<"system", environ.RAG_SYSTEM_PROMPT>>
                                              ELSE <<"default template">>
                        /\ label = IF Exists(environ.RAG_PROMPT_VERSION)
                                   THEN environ.RAG_PROMPT_VERSION
                                   ELSE rag_args.prompt_version
               /\ rag_local.prompt = <<"default template">>
                     => /\ ~Exists(rag_args.system_prompt)
                        /\ ~Exists(environ.RAG_SYSTEM_PROMPT)

-----------------------------------------------------------------------------
(* Orchestrator: persistence, sequencing and harvest *)

\* The cells of the store in memory that the persisted store does not hold as
\* they are
Unsaved ==
    {c \in CellsOf(full_results) :
        \/ c \notin CellsOf(output_file.data)
        \/ Cell(output_file.data, c) # Cell(full_results, c)}

\* The cells the engine was called for in this run
Asked == {<<trace[i][2], trace[i][3]>> : i \in RagEvents}

\* A step of the generation pass that follows a newly generated cell writes the
\* store, and a kill leaves at most one of this run's engine calls without its
\* cell in the store
WritesAtOnce ==
    /\ pc = "save" /\ pc' # "killed"
          => /\ <<"write">> \in NewEvents
             /\ output_file' = FileWith(full_results)
             /\ Unsaved' = {}
    /\ pc' = "killed" => Cardinality(Asked \ CellsOf(output_file'.data)) <= 1

ScoringOrder == <<"eval_retrieval", "eval_generation", "eval_ragas", "aggregate_scores">>

\* Where a run stands after the events t, if it stood in variant number i with
\* ph scoring procedures finished (0: still in the generation pass), and
\* whether every event came in its turn: engine calls, comparisons and
\* per-cell writes for the i-th variant of the list while ph = 0, then the four
\* procedures one by one with the variant as label, then the harvest (a write
\* or a warning), which leads to the generation pass of variant i + 1. A
\* procedure that failed is the last event.
RECURSIVE Sequenced(_, _, _)
Sequenced(t, i, ph) ==
    IF t = << >> THEN [ok |-> TRUE, i |-> i, ph |-> ph]
    ELSE LET e == Head(t)
             bad == [ok |-> FALSE, i |-> i, ph |-> ph]
         IN  CASE e[1] \in {"rag", "compare"} ->
                      IF ph = 0 /\ i <= Len(versions_to_run) /\ e[3] = versions_to_run[i]
                      THEN Sequenced(Tail(t), i, 0) ELSE bad
               [] e[1] = "sleep" ->
                      IF ph = 0 THEN Sequenced(Tail(t), i, 0) ELSE bad
               [] e[1] = "write" ->
                      IF ph = 0 THEN Sequenced(Tail(t), i, 0)
                      ELSE IF ph = 4 THEN Sequenced(Tail(t), i + 1, 0) ELSE bad
               [] e[1] = "warning" ->
                      IF ph = 4 /\ e[2] = versions_to_run[i]
                      THEN Sequenced(Tail(t), i + 1, 0) ELSE bad
               [] e[1] = "cmd" ->
                      IF /\ ph < 4 /\ i <= Len(versions_to_run)
                         /\ Commands[e[2]] = ScoringOrder[ph + 1]
                         /\ e[3] = versions_to_run[i]
                         /\ e[4] # 0 => Tail(t) = << >>
                      THEN Sequenced(Tail(t), i, IF e[4] = 0 THEN ph + 1 ELSE ph) ELSE bad
               [] OTHER -> bad

\* C18: strict sequencing. The variants are processed in the order of the
\* list; for each variant v the generation pass over all questions comes
\* first, then retrieval scoring, generation scoring, RAGAS scoring, the
\* aggregator with label v, then the harvest; no step of the next variant
\* starts before the harvest of v, and a run that ends by itself after scoring
\* has harvested every variant of the list.
C18_StrictSequencing ==
    LET at == Sequenced(trace, 1, 0) IN
        /\ at.ok
        /\ pc \in {"item", "save", "cmd", "harvest"}
              => at.i = p_idx /\ at.ph = (IF pc = "harvest" THEN 4 ELSE IF pc = "cmd" THEN cmd_idx - 1 ELSE 0)
        /\ pc \in {"cmd", "harvest"}
              => \A q \in Questions : <<q, versions_to_run[p_idx]>> \in CellsOf(output_file.data)
        /\ pc = "done" /\ oracle.fault # <<"nofile">>
              => at.i = Len(versions_to_run) + 1 /\ at.ph = 0

\* A run has harvested its first variant and started the engine for a question
\* of the second.
C18_Witness ==
    /\ pc = "save" /\ p_idx = 2
    /\ \E k \in 1..Len(trace) : trace[k][1] = "cmd" /\ trace[k][2] = 4
    /\ trace[Len(trace)][1] \in {"rag", "compare"}
    /\ Sequenced(trace, 1, 0).i = 2

\* The cells of variant v in a store, and those of them that carry scores
CellsOfVersion(data, v) == {c \in CellsOf(data) : c[2] = v}
Scored(data, v) == {c \in CellsOfVersion(data, v) : "scores" \in DOMAIN Cell(data, c)}

\* The harvest pass of a variant whose report is absent takes a step
HarvestsWithoutReport ==
    /\ pc = "harvest"
    /\ versions_to_run[p_idx] \notin DOMAIN reports
    /\ pc' # "killed"

\* What such a step does apart from the scores: the warning is logged, the
\* store is not written, and the run goes on to the next variant
WarnsAndGoesOn ==
    /\ NewEvents = {<<"warning", versions_to_run[p_idx]>>}
    /\ output_file' = output_file
    /\ pc' = "variant" /\ p_idx' = p_idx + 1

\* C20 as the specification has it: harvest with no report. If the report of
\* variant v is absent when the harvest pass runs, a warning is logged, the
\* store is not written, every v cell is without scores after the harvest
\* pass, and the run goes on to the next variant.
C20_NoReportNoScores ==
    [][HarvestsWithoutReport
          => /\ WarnsAndGoesOn
             /\ Scored(output_file'.data, versions_to_run[p_idx]) = {}
             /\ Scored(full_results', versions_to_run[p_idx]) = {}]_vars

\* C20, amended: harvest with no report. If the report of variant v is absent
\* when the harvest pass runs, a warning is logged, the store is not written,
\* no scores are attached to a v cell or changed (a v cell without scores stays
\* without, one that carries the scores of an earlier run keeps them), and the
\* run goes on to the next variant.
C20_NoReportNoAttach ==
    [][HarvestsWithoutReport
          => /\ WarnsAndGoesOn
             /\ full_results' = full_results
             /\ full_results = output_file.data
             /\ \A c \in CellsOfVersion(output_file.data, versions_to_run[p_idx]) :
                   Cell(output_file'.data, c) = Cell(output_file.data, c)]_vars

\* A harvest pass that found no report has warned and gone on, and a cell of
\* the variant still carries the scores an earlier run attached to it.
C20_Witness ==
    /\ pc = "variant" /\ p_idx = 2
    /\ trace # << >>
    /\ trace[Len(trace)] = <<"warning", versions_to_run[1]>>
    /\ Scored(output_file.data, versions_to_run[1]) # {}

-----------------------------------------------------------------------------
(* Orchestrator: cell lifecycle, pacing, overrides and failures *)

\* The events t end with the four external processes of v's scoring pass, in
\* their order, each exited with code 0, and the write that followed them
EndsWithScoringPass(t, v) ==
    /\ Len(t) >= 5
    /\ t[Len(t)] = <<"write">>
    /\ \A k \in 1..4 : t[Len(t) - 5 + k] = <<"cmd", k, v, 0>>

\* The cells of the persisted store whose scores this step attaches or changes
Rescored ==
    {c \in CellsOf(output_file'.data) :
        /\ "scores" \in DOMAIN Cell(output_file'.data, c)
        /\ \/ c \notin CellsOf(output_file.data)
           \/ "scores" \notin DOMAIN Cell(output_file.data, c)
           \/ Cell(output_file.data, c).scores # Cell(output_file'.data, c).scores}

\* A write of the store keeps every cell, keeps every scored cell scored, and
\* attaches or changes scores only of cells of the variant whose four
\* processes have just exited successfully in this run
LifecycleStep ==
    /\ \A c \in CellsOf(output_file.data) :
          /\ c \in CellsOf(output_file'.data)
          /\ "scores" \in DOMAIN Cell(output_file.data, c)
                => "scores" \in DOMAIN Cell(output_file'.data, c)
    /\ \A c \in Rescored :
          /\ pc = "harvest"
          /\ c[2] = versions_to_run[p_idx]
          /\ EndsWithScoringPass(trace', c[2])

\* C21: cell lifecycle. In every persisted state of the store a cell that has
\* scores or a change_summary has a response and metadata; the scores of a v
\* cell are attached or changed only after all four external processes of v's
\* scoring pass have exited successfully in the current run; no cell goes from
\* scored to unscored or from present to absent.
C21_CellLifecycle ==
    /\ [](\A c \in CellsOf(output_file.data) :
             {"response", "metadata"} \subseteq DOMAIN Cell(output_file.data, c))
    /\ [][output_file' # output_file => LifecycleStep]_vars

\* A later run has attached other scores to cells an earlier run had scored.
C21_Witness ==
    /\ runs = 2 /\ oracle.rep = 2
    /\ pc = "variant" /\ p_idx = 3
    /\ EndsWithScoringPass(trace, versions_to_run[2])
    /\ \E c \in Scored(output_file.data, versions_to_run[2]) :
          /\ "change_summary" \in DOMAIN Cell(output_file.data, c)
          /\ Cell(output_file.data, c).scores.rqi = ReportsWritten[2][c[2]].rqi

\* C22: pacing between scoring procedures. Whenever the scoring procedures are
\* run, a sleep of 10 s comes after retrieval scoring has finished and before
\* generation scoring starts, and a sleep of 30 s after generation scoring has
\* finished and before RAGAS scoring starts.
C22_PacingBetweenScoring ==
    \A i \in 1..Len(trace) :
        trace[i][1] = "cmd"
            => /\ Commands[trace[i][2]] = "eval_generation"
                     => i > 2 /\ trace[i - 1] = <<"sleep", 10>>
                              /\ trace[i - 2][1] = "cmd"
                              /\ Commands[trace[i - 2][2]] = "eval_retrieval"
               /\ Commands[trace[i][2]] = "eval_ragas"
                     => i > 2 /\ trace[i - 1] = <<"sleep", 30>>
                              /\ trace[i - 2][1] = "cmd"
                              /\ Commands[trace[i - 2][2]] = "eval_generation"

-----------------------------------------------------------------------------
(* Orchestrator, run_eval.py: one scoring run, process by process *)

\* The override variables as os.environ may hold them when the orchestrator
\* starts: unset, or left there with the values of some variant
OsEnvirons ==
    [RAG_SYSTEM_PROMPT : {None} \cup {PROMPT_VERSIONS[v] : v \in DOMAIN PROMPT_VERSIONS},
     RAG_PROMPT_VERSION : {None} \cup DOMAIN PROMPT_VERSIONS]

\* p_ver None: the standard flow of main (run_eval.py:246-276)
ScoringInputs == [p_ver : {None} \cup DOMAIN PROMPT_VERSIONS, run_name : {None, "groq_v1"}]

\* The overrides written into os.environ itself
SetOverridesInPlace(environment, p_ver) ==
    LET env == [environment EXCEPT !.RAG_SYSTEM_PROMPT = PROMPT_VERSIONS[p_ver],
                                   !.RAG_PROMPT_VERSION = p_ver]
    IN  [environ |-> env, env |-> env]

\* run_eval.py:170-172: os.environ and the local env after the three statements
SetOverrides(environment, p_ver) ==
    [environ |-> environment,
     env |-> [environment EXCEPT !.RAG_SYSTEM_PROMPT = PROMPT_VERSIONS[p_ver],
                                 !.RAG_PROMPT_VERSION = p_ver]]

\* run_eval.py:31: env if env else os.environ.copy(). No env given (None) is
\* the empty dict here: both are falsy.
PopenEnv(env, environment) == IF DOMAIN env # {} THEN env ELSE environment

\* run_eval.py:185 and 269-270: the label the aggregator is started with
SaveName == IF sc_args.p_ver # None THEN sc_args.p_ver ELSE sc_args.run_name

ScInit ==
    /\ OrchIdle
    /\ RagIdle
    /\ AggIdle
    /\ sc_args \in ScoringInputs
    /\ sc_args.p_ver # None => sc_args.run_name = None
    /\ os_environ \in OsEnvirons
    /\ sc_pc = IF sc_args.p_ver = None THEN <<"cmd", 1>> ELSE <<"env">>
    /\ sc_env = EmptyDict
    /\ sc_log = << >>

\* run_eval.py:170-172
SetEnv ==
    /\ sc_pc = <<"env">>
    /\ os_environ' = SetOverrides(os_environ, sc_args.p_ver).environ
    /\ sc_env' = SetOverrides(os_environ, sc_args.p_ver).env
    /\ sc_pc' = <<"cmd", 1>>
    /\ UNCHANGED <<orchVars, ragVars, aggVars, sc_args, sc_log>>

\* The process run_command starts (run_eval.py:25-32)
StartedProcess(k) ==
    <<"start", Commands[k], IF k = Len(Commands) THEN SaveName ELSE None,
      PopenEnv(sc_env, os_environ)>>

\* run_eval.py:20-43 with exit code 0, for the calls at 176-185 and 249-273
ProcessExits ==
    /\ sc_pc[1] = "cmd"
    /\ sc_log' = sc_log \o <<StartedProcess(sc_pc[2]), <<"exit", 0>> >>
    /\ sc_pc' = IF sc_pc[2] = Len(Commands) THEN <<"end">>
                ELSE IF sc_args.p_ver = None /\ sc_pc[2] \in {1, 2} THEN <<"pace", sc_pc[2]>>
                ELSE <<"cmd", sc_pc[2] + 1>>
    /\ UNCHANGED <<orchVars, ragVars, aggVars, sc_args, os_environ, sc_env>>

\* run_eval.py:34-36: a non-zero exit code ends the orchestrator
ProcessFails ==
    /\ sc_pc[1] = "cmd"
    /\ sc_log' = sc_log \o <<StartedProcess(sc_pc[2]), <<"exit", 1>> >>
    /\ sc_pc' = <<"end">>
    /\ UNCHANGED <<orchVars, ragVars, aggVars, sc_args, os_environ, sc_env>>

\* run_eval.py:252-254 and 262-263
Pace ==
    /\ sc_pc[1] = "pace"
    /\ sc_log' = Append(sc_log, <<"sleep", IF sc_pc[2] = 1 THEN 10 ELSE 30>>)
    /\ sc_pc' = <<"cmd", sc_pc[2] + 1>>
    /\ UNCHANGED <<orchVars, ragVars, aggVars, sc_args, os_environ, sc_env>>

ScNext == SetEnv \/ ProcessExits \/ ProcessFails \/ Pace

SpecScoring == ScInit /\ [][ScNext]_vars

\* The environments of the processes started so far
StartedEnvs == {sc_log[i][4] : i \in {k \in DOMAIN sc_log : sc_log[k][1] = "start"}}

\* C23: scoring-pass overrides. Each external process started for variant v
\* runs with the override instruction text equal to v's instruction and the
\* override label equal to v, so that none sees the values of another variant;
\* and the scoring pass leaves the orchestrator's own process-wide variables
\* as they were.
C23_OverridesPerProcess ==
    /\ [](sc_args.p_ver # None
             => \A env \in StartedEnvs :
                   /\ env.RAG_SYSTEM_PROMPT = PROMPT_VERSIONS[sc_args.p_ver]
                   /\ env.RAG_PROMPT_VERSION = sc_args.p_ver
                   /\ \A w \in (DOMAIN PROMPT_VERSIONS) \ {sc_args.p_ver} :
                         /\ env.RAG_SYSTEM_PROMPT # PROMPT_VERSIONS[w]
                         /\ env.RAG_PROMPT_VERSION # w)
    /\ [][sc_args.p_ver # None => os_environ' = os_environ]_vars

\* The four processes of prompt_v1's scoring pass were started, in a process
\* whose own variables hold the values of prompt_v0.
C23_Witness ==
    /\ sc_pc = <<"end">>
    /\ sc_args.p_ver = "prompt_v1"
    /\ os_environ.RAG_PROMPT_VERSION = "prompt_v0"
    /\ os_environ.RAG_SYSTEM_PROMPT = PROMPT_VERSIONS["prompt_v0"]
    /\ Cardinality({i \in DOMAIN sc_log : sc_log[i][1] = "start"}) = 4

-----------------------------------------------------------------------------
(* Orchestrator: comparison failure, labels, engine errors *)

\* This step calls the comparison for the question at hand, and the call fails
ComparisonFails ==
    /\ pc = "item"
    /\ item_idx \in 1..Len(test_data) /\ p_idx \in 1..Len(versions_to_run)
    /\ oracle.fault = <<"compare", test_data[item_idx]>>
    /\ <<"compare", test_data[item_idx], versions_to_run[p_idx]>> \in NewEvents

\* C24: comparison failure is local. If the change-summary comparison call
\* fails, no error propagates: the cell (q, v) is stored with its response and
\* with change_summary "Comparison failed.", it is persisted by the next step,
\* and the run continues with the next question.
C24_ComparisonFailureLocal ==
    [][/\ trace' # trace /\ ComparisonFails
            => LET c == <<test_data[item_idx], versions_to_run[p_idx]>> IN
                  /\ pc' = "save"
                  /\ c \in CellsOf(full_results')
                  /\ Cell(full_results', c).response
                        = <<"answer", c[1], PROMPT_VERSIONS[c[2]]>>
                  /\ Cell(full_results', c).change_summary = "Comparison failed."
       /\ pc = "save" /\ pc' # "killed"
            => /\ output_file'.data = full_results
               /\ pc' = "item" /\ item_idx' = item_idx + 1 /\ p_idx' = p_idx]_vars

\* The comparison for q1 failed, its cell is in the store with the
\* placeholder, and the run has gone on to generate the cell of q2.
C24_Witness ==
    /\ oracle.fault = <<"compare", "q1">>
    /\ pc = "save"
    /\ <<"q1", "prompt_v1">> \in CellsOf(output_file.data)
    /\ "change_summary" \in DOMAIN Cell(output_file.data, <<"q1", "prompt_v1">>)
    /\ Cell(output_file.data, <<"q1", "prompt_v1">>).change_summary = "Comparison failed."
    /\ Len(trace) > 0
    /\ trace[Len(trace)] = <<"compare", "q2", "prompt_v1">>
    /\ <<"q2", "prompt_v1">> \in CellsOf(full_results)
    /\ Cell(full_results, <<"q2", "prompt_v1">>).change_summary[1] = "summary"

-----------------------------------------------------------------------------
(* Score aggregator: the saved report *)

\* The number of report files the call has written
Saves == Cardinality({i \in 1..Len(agg_log) : agg_log[i][1] = "saved"})

\* The step leaves the report files alone, or writes the one file of the label
WritesLabelledReport ==
    \/ /\ agg_reports' = agg_reports
       /\ agg_log' # agg_log => agg_log'[Len(agg_log')][1] # "saved"
    \/ /\ agg_pc = "save"
       /\ agg_args.save_name \notin {None, ""}
       /\ DOMAIN agg_reports' = DOMAIN agg_reports \cup {agg_args.save_name}
       /\ \A name \in DOMAIN agg_reports :
             name # agg_args.save_name => agg_reports'[name] = agg_reports[name]
       /\ agg_log' = Append(agg_log, <<"saved", agg_args.save_name>>)

\* C25: report persistence by label. When the aggregator is given a run label,
\* exactly one report file keyed by that label is written, holding model_name
\* = the label, retrieval, generation, ragas, rqi and grade; when no label is
\* given, no file is written and the report files are left as they were.
C25_ReportPersistence ==
    /\ [](agg_pc = "end"
            => IF agg_args.save_name \notin {None, ""}
               THEN /\ Saves = 1
                    /\ agg_args.save_name \in DOMAIN agg_reports
                    /\ agg_reports[agg_args.save_name]
                          = [model_name |-> agg_args.save_name,
                             retrieval |-> agg_local.retrieval,
                             generation |-> agg_local.generation,
                             ragas |-> agg_local.ragas,
                             rqi |-> agg_local.rqi,
                             grade |-> agg_local.grade]
               ELSE Saves = 0)
    /\ [][WritesLabelledReport]_vars

\* A call with a label has replaced the label's earlier report by a new one.
C25_Witness ==
    /\ agg_pc = "end"
    /\ agg_args.save_name = "prompt_v1"
    /\ agg_reports["prompt_v1"].grade = "A"
    /\ agg_local.retrieval = 95

-----------------------------------------------------------------------------
(* Query engine: the backoff schedule *)

\* The positions of the sleeps in the log of the call
Sleeps == {k \in 1..Len(rag_log) : rag_log[k][1] = "sleep"}

\* C26: backoff schedule. The sleep that follows the rate-limited attempt
\* with 0-based index i lasts 20*(i+1)+60 seconds (80, 100, 120, 140, ...):
\* successive sleeps within one call increase by exactly 20 s, and every sleep
\* is at least 80 s.
C26_BackoffSchedule ==
    /\ \A k \in Sleeps :
          /\ k > 1
          /\ rag_log[k - 1][1] = "error" /\ rag_log[k - 1][3] = "rate limit"
          /\ rag_log[k][2] = 20 * (rag_log[k - 1][2] + 1) + 60
          /\ rag_log[k][2] >= 80
    /\ \A k, l \in Sleeps :
          (k < l /\ \A m \in Sleeps : ~(k < m /\ m < l))
             => rag_log[l][2] = rag_log[k][2] + 20

\* Three rate-limited attempts have been followed by sleeps of 80, 100 and 120 s.
C26_Witness ==
    /\ Cardinality(Sleeps) = 3
    /\ \E k \in Sleeps : rag_log[k] = <<"sleep", 120>>
    /\ rag_pc = "end"

\* C27: cell labelling. For every cell (q, v) of the persisted store, the
\* cell's metadata records the variant label v (metadata.prompt_version = v)
\* and the query q, the store entry keyed by q has question = q, and the
\* metadata never contains the answer text.
C27_CellLabelling ==
    \A q \in DOMAIN output_file.data :
        /\ output_file.data[q].question = q
        /\ \A v \in DOMAIN output_file.data[q].prompt_results :
              LET metadata == output_file.data[q].prompt_results[v].metadata IN
                 /\ metadata.prompt_version = v
                 /\ metadata.query = q
                 /\ "answer" \notin DOMAIN metadata
                 /\ DOMAIN metadata
                       = {"query", "retrieved_chunks", "retrieved_metadata", "prompt_version"}

\* The store of a second run with another list holds the cells of two variants
\* for both questions, the later ones written next to the scored earlier ones.
C27_Witness ==
    /\ runs = 2
    /\ pc = "done"
    /\ \A q \in Questions :
          /\ q \in DOMAIN output_file.data
          /\ Cardinality(DOMAIN output_file.data[q].prompt_results) = 2

\* This step calls the engine for the cell at hand, and the engine returns an
\* error result
EngineReturnsError ==
    /\ pc = "item"
    /\ item_idx \in 1..Len(test_data) /\ p_idx \in 1..Len(versions_to_run)
    /\ oracle.fault = <<"rag", test_data[item_idx], versions_to_run[p_idx], "error">>
    /\ <<"rag", test_data[item_idx], versions_to_run[p_idx]>> \in NewEvents

\* The engine call is the last thing the run does: it ends there, with the
\* store and the reports as they were and no scoring process of v started
StopsAtEngineError ==
    /\ pc' = "crashed"
    /\ output_file' = output_file
    /\ reports' = reports
    /\ trace' = Append(trace, <<"rag", test_data[item_idx], versions_to_run[p_idx]>>)
    /\ \A i \in 1..Len(trace') :
          trace'[i][1] = "cmd" => trace'[i][3] # versions_to_run[p_idx]

\* C28: engine error result in the orchestrator. If the engine returns an
\* error result (no answer) for (q, v) during the generation pass, the
\* orchestrator never persists a cell for (q, v) built from that result, the
\* persisted store is left exactly as it was before that engine call, and the
\* run stops without starting the scoring pass.
C28_EngineErrorStopsRun ==
    /\ [](\A q \in Questions, v \in VersionIds :
             oracle.fault = <<"rag", q, v, "error">>
                => <<q, v>> \notin CellsOf(output_file.data))
    /\ [][trace' # trace /\ EngineReturnsError => StopsAtEngineError]_vars

\* The engine returned an error result for (q2, prompt_v1) after the cell of
\* q1 was persisted: the run has ended with the store holding q1's cell alone.
C28_Witness ==
    /\ oracle.fault = <<"rag", "q2", "prompt_v1", "error">>
    /\ pc = "crashed"
    /\ Len(trace) > 0
    /\ trace[Len(trace)] = <<"rag", "q2", "prompt_v1">>
    /\ <<"q1", "prompt_v1">> \in CellsOf(output_file.data)
    /\ <<"q2", "prompt_v1">> \notin CellsOf(output_file.data)

\* The messages of the printed justification
JustificationMessages == {Justification[i] : i \in DOMAIN Justification}

\* C29: for all sub-scores, whenever the justification contains the compound
\* "RAG Paradox" message it also contains the retrieval-healthy message and
\* the reasoning-poor message (the compound message never appears alone), and
\* the justification is never empty because exactly one retrieval message is
\* always present.
C29_CompoundNeverAlone ==
    Justified
        => /\ "RAG Paradox" \in JustificationMessages
                 => {"Retrieval is healthy", "Reasoning is poor"} \subseteq JustificationMessages
           /\ Justification # << >>
           /\ Cardinality({i \in DOMAIN Justification :
                              Justification[i] \in {"Retrieval is the bottleneck",
                                                    "Retrieval is healthy"}}) = 1

\* A call whose justification is the compound message with exactly the two
\* messages it never goes without, and the call has ended.
C29_Witness ==
    /\ agg_pc = "end"
    /\ Justified
    /\ Justification = <<"Retrieval is healthy", "Reasoning is poor", "RAG Paradox">>

====
